---- MODULE Spec2Model ----
(***************************************************************************)
(* Model of the Ollama prompt-enhancement client (src/src/ollama/client.py) *)
(* and of its configuration (src/src/ollama/config.py)                     *)
(*                                                                         *)
(* Text is a sequence of one-character strings.  A Python value is a       *)
(* record [t, v]: t is the Python type ("str", "int", "float", "bool",     *)
(* "none", "dict", "list") and v its content.                              *)
(*                                                                         *)
(* Alphabet of the texts the model is run on: the letters of the keys,     *)
(* labels and prompts below, the digit 5, the punctuation { } [ ] " : , #  *)
(* / and the whitespace characters space, \n, \t, \r, \f.  The characters  *)
(* \ . - + never occur, so string escapes, fractions and signs are outside *)
(* the inputs.                                                             *)
(***************************************************************************)
EXTENDS Integers, Sequences, FiniteSets, TLC

VARIABLES
    p_pc, p_text, p_out,       \* one call of OllamaClient._parse_response
    e_pc,                      \* one call of OllamaClient.enhance_prompt
    e_prompt,                  \* its argument original_prompt
    e_max_retries,             \* self.config.max_retries
    e_total,                   \* Retry.total still left for this request
    e_log,                     \* what each attempt of the request met
    e_post,                    \* how self.session.post ended
    e_out,                     \* how enhance_prompt ended
    b_pc,                      \* one call of OllamaClient.enhance_prompts_batch
    b_prompts,                 \* its argument prompts
    b_i,                       \* the loop index i, counted from 1
    b_enhanced,                \* the list enhanced_prompts
    b_calls,                   \* how each enhance_prompt call of the loop ended
    b_sleeps,                  \* the indices after which time.sleep(0.1) ran
    b_out,                     \* what the call returned
    c_pc,                      \* one call of OllamaClientPool.enhance_prompts_concurrent
    c_prompts,                 \* its argument prompts
    c_pool_size,               \* len(self.clients)
    c_enhanced,                \* the list enhanced_prompts
    c_task,                    \* per prompt index: where its task stands
    c_client,                  \* per prompt index: the pooled client it was given
    c_future,                  \* per prompt index: how client.enhance_prompt ended
    c_order,                   \* the indices in the order their slots were written
    c_calls,                   \* per prompt index: the clients whose enhance_prompt was entered for it
    c_out,                     \* what the call returned
    t_pc,                      \* one call of OllamaClient.test_connection
    t_model,                   \* self.config.model
    t_get,                     \* how self.session.get ended
    t_out,                     \* how test_connection ended
    k_pc,                      \* a pool and its clients: "ready", or "closing" inside pool.close()
    k_size,                    \* self.pool_size
    k_clients,                 \* self.clients: the client instances, in order
    k_fault,                   \* the clients whose session.close() raises
    k_session,                 \* per client: its session's connection pools, "live" or "cleared"
    k_closes,                  \* per client: close() calls in a row since its last request
    k_after,                   \* per client: its session after the first close() of that row
    k_i,                       \* pool.close(): the loop's position in self.clients
    k_attempted,               \* pool.close(): the clients whose close() was called
    k_out,                     \* how the last pool.close() ended
    k_pool_closes,             \* pool.close() calls in a row since the last request
    k_pool_after,              \* the sessions after the first pool.close() of that row
    k_raised,                  \* whether a close() of a client or of the pool raised
    o_pc,                      \* one construction OllamaConfig(**kwargs)
    o_kwargs,                  \* its keyword arguments
    o_out,                     \* the instance, or the validation error
    m_path,                    \* a ConfigManager: self.config_path
    m_config,                  \* its self._config
    m_file,                    \* the file at self.config_path
    m_last,                    \* the manager's last call and what it met
    m_steps                    \* the number of calls made on the manager

parseVars == <<p_pc, p_text, p_out>>
enhanceVars == <<e_pc, e_prompt, e_max_retries, e_total, e_log, e_post, e_out>>
batchVars == <<b_pc, b_prompts, b_i, b_enhanced, b_calls, b_sleeps, b_out>>
poolVars == <<c_pc, c_prompts, c_pool_size, c_enhanced, c_task, c_client,
              c_future, c_order, c_calls, c_out>>
testVars == <<t_pc, t_model, t_get, t_out>>
\* the components that follow the first four
closeVars == <<k_pc, k_size, k_clients, k_fault, k_session, k_closes, k_after, k_i,
               k_attempted, k_out, k_pool_closes, k_pool_after, k_raised>>
firstVars == <<parseVars, enhanceVars, batchVars, poolVars>>
configVars == <<o_pc, o_kwargs, o_out, m_path, m_config, m_file, m_last,
               m_steps>>
restVars == <<testVars, closeVars, configVars>>
vars == <<parseVars, enhanceVars, batchVars, poolVars, restVars>>

----------------------------------------------------------------------------
(* Python str operations used by the client *)

\* str.strip() removes these (the whitespace characters of the alphabet)
Whitespace == {" ", "\n", "\t", "\r", "\f"}

\* json.decoder.WHITESPACE: only these four are skipped by json.loads
JsonWhitespace == {" ", "\n", "\t", "\r"}

\* characters below 0x20, which json's strict string scanner rejects
ControlChars == {"\n", "\t", "\r", "\f"}

Digits == {"0", "1", "2", "3", "4", "5", "6", "7", "8", "9"}

RECURSIVE lstrip(_)
lstrip(s) ==
    IF Len(s) > 0 /\ Head(s) \in Whitespace THEN lstrip(Tail(s)) ELSE s

RECURSIVE rstrip(_)
rstrip(s) ==
    IF Len(s) > 0 /\ s[Len(s)] \in Whitespace
    THEN rstrip(SubSeq(s, 1, Len(s) - 1))
    ELSE s

strip(s) == rstrip(lstrip(s))

startswith(s, prefix) ==
    Len(s) >= Len(prefix) /\ SubSeq(s, 1, Len(prefix)) = prefix

\* s.split('\n'): always at least one element
RECURSIVE split(_, _)
split(s, cur) ==
    IF Len(s) = 0 THEN <<cur>>
    ELSE IF Head(s) = "\n" THEN <<cur>> \o split(Tail(s), <<>>)
    ELSE split(Tail(s), Append(cur, Head(s)))

splitlines(s) == split(s, <<>>)

lowerChar(c) ==
    CASE c = "A" -> "a" [] c = "C" -> "c" [] c = "E" -> "e"
      [] c = "O" -> "o" [] c = "R" -> "r" [] c = "T" -> "t"
      [] OTHER -> c

lower(s) == [i \in 1..Len(s) |-> lowerChar(s[i])]

RECURSIVE join(_, _)
join(parts, sep) ==
    IF Len(parts) = 0 THEN <<>>
    ELSE IF Len(parts) = 1 THEN parts[1]
    ELSE parts[1] \o sep \o join(Tail(parts), sep)

----------------------------------------------------------------------------
(* Python values *)

PyStr(s)    == [t |-> "str", v |-> s]
PyInt(s)    == [t |-> "int", v |-> s]            \* v: the decimal digits
PyFloat(m, e) == [t |-> "float", v |-> <<m, e>>] \* mantissa digits, exponent digits
PyBool(b)   == [t |-> "bool", v |-> IF b THEN <<"1">> ELSE <<>>]
PyNone      == [t |-> "none", v |-> <<>>]
PyDict(ps)  == [t |-> "dict", v |-> ps]          \* v: sequence of [k, v] in source order
PyList(xs)  == [t |-> "list", v |-> xs]          \* v: sequence of values

\* key in d, for a dict
DictHas(d, key) == \E i \in 1..Len(d.v) : d.v[i].k = key

\* d[key]: json.loads keeps the last of several equal keys
DictGet(d, key) ==
    LET i == CHOOSE j \in 1..Len(d.v) :
                 /\ d.v[j].k = key
                 /\ \A h \in (j+1)..Len(d.v) : d.v[h].k # key
    IN d.v[i].v

----------------------------------------------------------------------------
(* json.loads, as the json module of the standard library decodes a text    *)
(* over the alphabet: objects, arrays, strings, integers with an optional    *)
(* exponent, true / false / null.                                           *)

JsonError == [ok |-> FALSE, val |-> PyNone, rest |-> <<>>]
JsonOk(val, rest) == [ok |-> TRUE, val |-> val, rest |-> rest]

RECURSIVE SkipJsonWs(_)
SkipJsonWs(s) ==
    IF Len(s) > 0 /\ Head(s) \in JsonWhitespace THEN SkipJsonWs(Tail(s)) ELSE s

\* s follows an opening quote; acc is the string read so far
RECURSIVE ScanString(_, _)
ScanString(s, acc) ==
    IF Len(s) = 0 THEN JsonError
    ELSE IF Head(s) = "\"" THEN JsonOk(acc, Tail(s))
    ELSE IF Head(s) \in ControlChars THEN JsonError
    ELSE ScanString(Tail(s), Append(acc, Head(s)))

RECURSIVE CountDigits(_)
CountDigits(s) ==
    IF Len(s) > 0 /\ Head(s) \in Digits THEN 1 + CountDigits(Tail(s)) ELSE 0

\* NUMBER_RE = (-?(?:0|[1-9]\d*))(\.\d+)?([eE][-+]?\d+)?  without sign and fraction
ScanNumber(s) ==
    LET n == IF Head(s) = "0" THEN 1 ELSE CountDigits(s)
        int == SubSeq(s, 1, n)
        after == SubSeq(s, n + 1, Len(s))
        hasExp == /\ Len(after) >= 2
                  /\ after[1] \in {"e", "E"}
                  /\ after[2] \in Digits
        m == IF hasExp THEN CountDigits(Tail(after)) ELSE 0
    IN IF hasExp
       THEN JsonOk(PyFloat(int, SubSeq(after, 2, m + 1)),
                   SubSeq(after, m + 2, Len(after)))
       ELSE JsonOk(PyInt(int), after)

RECURSIVE ParseValue(_)
RECURSIVE ParseMembers(_, _)
RECURSIVE ParseElements(_, _)

\* JSONObject: s follows the opening brace
ParseObject(s) ==
    LET s1 == SkipJsonWs(s)
    IN IF Len(s1) = 0 THEN JsonError
       ELSE IF Head(s1) = "}" THEN JsonOk(PyDict(<<>>), Tail(s1))
       ELSE IF Head(s1) # "\"" THEN JsonError
       ELSE ParseMembers(Tail(s1), <<>>)

\* s follows the opening quote of a key; acc holds the members read so far
ParseMembers(s, acc) ==
    LET key == ScanString(s, <<>>)
        s1 == SkipJsonWs(key.rest)
        val == ParseValue(SkipJsonWs(Tail(s1)))
        pairs == Append(acc, [k |-> key.val, v |-> val.val])
        s2 == SkipJsonWs(val.rest)
        s3 == SkipJsonWs(Tail(s2))
    IN IF ~key.ok THEN JsonError
       ELSE IF Len(s1) = 0 \/ Head(s1) # ":" THEN JsonError
       ELSE IF ~val.ok THEN JsonError
       ELSE IF Len(s2) = 0 THEN JsonError
       ELSE IF Head(s2) = "}" THEN JsonOk(PyDict(pairs), Tail(s2))
       ELSE IF Head(s2) # "," THEN JsonError
       ELSE IF Len(s3) = 0 \/ Head(s3) # "\"" THEN JsonError
       ELSE ParseMembers(Tail(s3), pairs)

\* JSONArray: s follows the opening bracket
ParseArray(s) ==
    LET s1 == SkipJsonWs(s)
    IN IF Len(s1) > 0 /\ Head(s1) = "]" THEN JsonOk(PyList(<<>>), Tail(s1))
       ELSE ParseElements(s1, <<>>)

\* s starts at an element; acc holds the elements read so far
ParseElements(s, acc) ==
    LET val == ParseValue(s)
        values == Append(acc, val.val)
        s1 == SkipJsonWs(val.rest)
    IN IF ~val.ok THEN JsonError
       ELSE IF Len(s1) = 0 THEN JsonError
       ELSE IF Head(s1) = "]" THEN JsonOk(PyList(values), Tail(s1))
       ELSE IF Head(s1) # "," THEN JsonError
       ELSE ParseElements(SkipJsonWs(Tail(s1)), values)

\* scanner.py_make_scanner._scan_once: s starts at the value
ParseValue(s) ==
    IF Len(s) = 0 THEN JsonError
    ELSE IF Head(s) = "\"" THEN
        LET str == ScanString(Tail(s), <<>>)
        IN IF str.ok THEN JsonOk(PyStr(str.val), str.rest) ELSE JsonError
    ELSE IF Head(s) = "{" THEN ParseObject(Tail(s))
    ELSE IF Head(s) = "[" THEN ParseArray(Tail(s))
    ELSE IF startswith(s, <<"n", "u", "l", "l">>)
        THEN JsonOk(PyNone, SubSeq(s, 5, Len(s)))
    ELSE IF startswith(s, <<"t", "r", "u", "e">>)
        THEN JsonOk(PyBool(TRUE), SubSeq(s, 5, Len(s)))
    ELSE IF startswith(s, <<"f", "a", "l", "s", "e">>)
        THEN JsonOk(PyBool(FALSE), SubSeq(s, 6, Len(s)))
    ELSE IF Head(s) \in Digits THEN ScanNumber(s)
    ELSE JsonError

\* json.loads(s): one value, JSON whitespace around it, nothing else
json_loads(s) ==
    LET val == ParseValue(SkipJsonWs(s))
    IN IF ~val.ok THEN JsonError
       ELSE IF Len(SkipJsonWs(val.rest)) # 0 THEN JsonError
       ELSE val

----------------------------------------------------------------------------
(* OllamaClient._parse_response *)

Return(value) == [kind |-> "return", value |-> value, exc |-> "", err |-> FALSE]
Raise(exc)    == [kind |-> "raise", value |-> <<>>, exc |-> exc, err |-> TRUE]

K_response == <<"r", "e", "s", "p", "o", "n", "s", "e">>
K_text     == <<"t", "e", "x", "t">>

\* client.py line 114, in the order the loop tries them
prefixes == <<
    <<"E", "n", "h", "a", "n", "c", "e", "d", " ", "p", "r", "o", "m", "p", "t", ":">>,
    <<"R", "e", "s", "u", "l", "t", ":">>,
    <<"O", "u", "t", "p", "u", "t", ":">>,
    <<"E", "n", "h", "a", "n", "c", "e", "d", ":">> >>

\* lines 115-118: the first prefix the line starts with is cut off, then strip
RECURSIVE RemovePrefix(_, _)
RemovePrefix(line, ps) ==
    IF Len(ps) = 0 THEN line
    ELSE IF startswith(line, Head(ps))
         THEN strip(SubSeq(line, Len(Head(ps)) + 1, Len(line)))
         ELSE RemovePrefix(line, Tail(ps))

\* mutant: the // comment marker is forgotten
IsCandidateLine_NoSlashComment(line) ==
    /\ Len(line) > 0
    /\ ~startswith(line, <<"#">>)

\* line 112
IsCandidateLine(line) ==
    /\ Len(line) > 0
    /\ ~startswith(line, <<"#">>)
    /\ ~startswith(line, <<"/", "/">>)

\* lines 110-121: the loop over the lines; found = a return at line 121
RECURSIVE ScanLines(_)
ScanLines(lines) ==
    IF Len(lines) = 0 THEN [found |-> FALSE, line |-> <<>>]
    ELSE LET line == strip(Head(lines))
             cut == RemovePrefix(line, prefixes)
         IN IF IsCandidateLine(line) /\ Len(cut) > 0
            THEN [found |-> TRUE, line |-> cut]
            ELSE ScanLines(Tail(lines))

\* lines 106-124
ParsePlainText(text) ==
    LET hit == ScanLines(splitlines(strip(text)))
    IN IF hit.found THEN Return(hit.line) ELSE Return(strip(text))

\* mutant: the handler returns the body as it came, untrimmed
ParseFallback_Untrimmed(response_text) ==
    IF response_text.t = "str"
    THEN [Return(response_text.v) EXCEPT !.err = TRUE]
    ELSE Raise("AttributeError")

\* lines 126-129: the handler; response_text.strip() raises again when
\* response_text is no str
ParseFallback(response_text) ==
    IF response_text.t = "str"
    THEN [Return(strip(response_text.v)) EXCEPT !.err = TRUE]
    ELSE Raise("AttributeError")

\* mutant: the text field is looked up before the response field
ParseJsonBranch_TextFirst(response_text) ==
    LET data == json_loads(response_text.v)
    IN IF ~data.ok THEN ParseFallback(response_text)
       ELSE IF data.val.t # "dict" THEN ParseFallback(response_text)
       ELSE IF DictHas(data.val, K_text)
            THEN IF DictGet(data.val, K_text).t = "str"
                 THEN Return(strip(DictGet(data.val, K_text).v))
                 ELSE ParseFallback(response_text)
       ELSE IF DictHas(data.val, K_response)
            THEN IF DictGet(data.val, K_response).t = "str"
                 THEN Return(strip(DictGet(data.val, K_response).v))
                 ELSE ParseFallback(response_text)
       ELSE ParsePlainText(response_text.v)

\* lines 99-104, the body being a str that starts with a brace
ParseJsonBranch(response_text) ==
    LET data == json_loads(response_text.v)
    IN IF ~data.ok THEN ParseFallback(response_text)          \* JSONDecodeError
       ELSE IF data.val.t # "dict" THEN ParseFallback(response_text)
       ELSE IF DictHas(data.val, K_response)
            THEN IF DictGet(data.val, K_response).t = "str"
                 THEN Return(strip(DictGet(data.val, K_response).v))
                 ELSE ParseFallback(response_text)             \* no .strip()
       ELSE IF DictHas(data.val, K_text)
            THEN IF DictGet(data.val, K_text).t = "str"
                 THEN Return(strip(DictGet(data.val, K_text).v))
                 ELSE ParseFallback(response_text)
       ELSE ParsePlainText(response_text.v)

\* lines 85-129; response_text is a Python value
_parse_response(response_text) ==
    IF response_text.t # "str" THEN ParseFallback(response_text)
    ELSE IF startswith(strip(response_text.v), <<"{">>)
         THEN ParseJsonBranch(response_text)
         ELSE ParsePlainText(response_text.v)

----------------------------------------------------------------------------
(* str(response_data), line 186: Python's rendering of a decoded value *)

\* sub in s, for two str
RECURSIVE Contains(_, _)
Contains(s, sub) ==
    IF startswith(s, sub) THEN TRUE
    ELSE IF Len(s) = 0 THEN FALSE
    ELSE Contains(Tail(s), sub)

RECURSIVE Zeros(_)
Zeros(n) == IF n = 0 THEN <<>> ELSE <<"0">> \o Zeros(n - 1)

DigitValue(c) ==
    CASE c = "0" -> 0 [] c = "1" -> 1 [] c = "2" -> 2 [] c = "3" -> 3
      [] c = "4" -> 4 [] c = "5" -> 5 [] c = "6" -> 6 [] c = "7" -> 7
      [] c = "8" -> 8 [] c = "9" -> 9

DigitChar(n) == <<"0", "1", "2", "3", "4", "5", "6", "7", "8", "9">>[n + 1]

RECURSIVE TextToNat(_, _)
TextToNat(s, acc) ==
    IF Len(s) = 0 THEN acc
    ELSE IF acc > 1000 THEN acc                 \* beyond every float: enough
    ELSE TextToNat(Tail(s), 10 * acc + DigitValue(Head(s)))

RECURSIVE NatToText(_)
NatToText(n) ==
    IF n < 10 THEN <<DigitChar(n)>>
    ELSE NatToText(n \div 10) \o <<DigitChar(n % 10)>>

RECURSIVE StripZeros(_)
StripZeros(s) ==
    IF Len(s) > 0 /\ s[Len(s)] = "0" THEN StripZeros(SubSeq(s, 1, Len(s) - 1)) ELSE s

\* repr of the float m * 10^e read from "<m>e<e>", m of at most 16 digits
FloatRepr(m, e) ==
    LET exp == TextToNat(e, 0)
        sig == StripZeros(m)
        pow == Len(m) - 1 + exp                 \* the decimal exponent
    IN IF m = <<"0">> THEN <<"0", ".", "0">>
       ELSE IF pow > 308 THEN <<"i", "n", "f">>
       ELSE IF pow < 16 THEN m \o Zeros(exp) \o <<".", "0">>
       ELSE <<Head(sig)>>
            \o (IF Len(sig) > 1 THEN <<".">> \o Tail(sig) ELSE <<>>)
            \o <<"e", "+">> \o NatToText(pow)

\* the keys of a dict in insertion order, each once
RECURSIVE DictKeys(_, _)
DictKeys(ps, seen) ==
    IF Len(ps) = 0 THEN <<>>
    ELSE IF Head(ps).k \in seen THEN DictKeys(Tail(ps), seen)
    ELSE <<Head(ps).k>> \o DictKeys(Tail(ps), seen \cup {Head(ps).k})

RECURSIVE PyRepr(_)
PyRepr(x) ==
    CASE x.t = "str" -> <<"'">> \o x.v \o <<"'">>
      [] x.t = "int" -> x.v
      [] x.t = "float" -> FloatRepr(x.v[1], x.v[2])
      [] x.t = "bool" -> IF Len(x.v) > 0 THEN <<"T", "r", "u", "e">> ELSE <<"F", "a", "l", "s", "e">>
      [] x.t = "none" -> <<"N", "o", "n", "e">>
      [] x.t = "dict" ->
            LET keys == DictKeys(x.v, {})
                items == [i \in 1..Len(keys) |->
                            PyRepr(PyStr(keys[i])) \o <<":", " ">>
                              \o PyRepr(DictGet(x, keys[i]))]
            IN <<"{">> \o join(items, <<",", " ">>) \o <<"}">>
      [] x.t = "list" ->
            <<"[">> \o join([i \in 1..Len(x.v) |-> PyRepr(x.v[i])], <<",", " ">>)
                \o <<"]">>

\* mutant: anything but a str is rendered as the empty text
PyStrOf_Nothing(x) == IF x.t = "str" THEN x.v ELSE <<>>

\* str(x): a str is itself, everything else its repr
PyStrOf(x) == IF x.t = "str" THEN x.v ELSE PyRepr(x)

----------------------------------------------------------------------------
(* requests / urllib3 as configured by OllamaClient._create_session         *)

\* line 49
status_forcelist == {429, 500, 502, 503, 504}

\* urllib3 Retry.RETRY_AFTER_STATUS_CODES, honoured because the Retry of
\* line 46 leaves respect_retry_after_header at its default
RETRY_AFTER_STATUS_CODES == {413, 429, 503}

\* what one attempt of the POST can meet
Statuses == {200, 404, 413, 429, 500}
TransportErrors == {"ConnectError", "ConnectTimeout", "ReadTimeout"}

\* the statuses the server may accompany with a Retry-After header
RetryAfterSenders == {404, 413, 429}

StatusEvent(status, retry_after) ==
    [kind |-> "status", status |-> status, retry_after |-> retry_after, error |-> ""]
ErrorEvent(error) ==
    [kind |-> "error", status |-> 0, retry_after |-> FALSE, error |-> error]

\* mutant: every error status is retried, not only those of the forcelist
is_retry_AnyErrorStatus(total, status, has_retry_after) ==
    \/ status >= 400
    \/ /\ total # 0
       /\ has_retry_after
       /\ status \in RETRY_AFTER_STATUS_CODES

\* Retry.is_retry for a POST (line 50 allows the method), total retries left
is_retry(total, status, has_retry_after) ==
    \/ status \in status_forcelist
    \/ /\ total # 0
       /\ has_retry_after
       /\ status \in RETRY_AFTER_STATUS_CODES

\* the requests exception HTTPAdapter.send raises for the MaxRetryError of an
\* exhausted Retry, by what the last attempt met
ExhaustedException(event) ==
    IF event.kind = "status" THEN "RetryError"
    ELSE IF event.error = "ConnectTimeout" THEN "ConnectTimeout"
    ELSE "ConnectionError"

\* requests.exceptions: the classes caught by `except Timeout` (line 201) and,
\* after it, by `except ConnectionError` (line 206)
TimeoutClasses == {"Timeout", "ConnectTimeout", "ReadTimeout"}
ConnectionErrorClasses == {"ConnectionError", "ConnectTimeout"}

PostResponse(status, body) ==
    [kind |-> "response", status |-> status, body |-> body, exc |-> ""]
PostRaise(exc) ==
    [kind |-> "raise", status |-> 0, body |-> <<>>, exc |-> exc]
NoPost == [kind |-> "none", status |-> 0, body |-> <<>>, exc |-> ""]

----------------------------------------------------------------------------
(* OllamaClient.enhance_prompt, from the end of session.post on *)

\* enhance_prompt returns result; addition is the local enhanced_text
Enhanced(result, addition) ==
    [kind |-> "return", value |-> result, addition |-> addition,
     exc |-> "", handler |-> "", cause |-> ""]

\* enhance_prompt raises OllamaAPIError from the handler of lines 201, 206 or
\* 211; cause is the exception that handler caught
ApiError(handler, cause) ==
    [kind |-> "raise", value |-> <<>>, addition |-> <<>>,
     exc |-> "OllamaAPIError", handler |-> handler, cause |-> cause]

NoResult ==
    [kind |-> "none", value |-> <<>>, addition |-> <<>>,
     exc |-> "", handler |-> "", cause |-> ""]

\* mutant: the catch-all handler of line 211 is missing
Handle_NoCatchAll(exc) ==
    IF exc \in TimeoutClasses THEN ApiError("Timeout", exc)
    ELSE IF exc \in ConnectionErrorClasses THEN ApiError("ConnectionError", exc)
    ELSE [ApiError("", exc) EXCEPT !.exc = exc]

\* lines 201-214: which handler catches an exception raised in the try block
Handle(exc) ==
    IF exc \in TimeoutClasses THEN ApiError("Timeout", exc)
    ELSE IF exc \in ConnectionErrorClasses THEN ApiError("ConnectionError", exc)
    ELSE ApiError("Exception", exc)

\* mutant: the comparison with the original is case-sensitive
Combine_CaseSensitive(original_prompt, enhanced_text) ==
    IF Len(enhanced_text) > 0 /\ enhanced_text # original_prompt
    THEN Enhanced(original_prompt \o <<",", " ">> \o enhanced_text, enhanced_text)
    ELSE Enhanced(original_prompt, enhanced_text)

\* lines 192-199
Combine(original_prompt, enhanced_text) ==
    IF Len(enhanced_text) > 0 /\ lower(enhanced_text) # lower(original_prompt)
    THEN Enhanced(original_prompt \o <<",", " ">> \o enhanced_text, enhanced_text)
    ELSE Enhanced(original_prompt, enhanced_text)

\* lines 179-199, response_data being what response.json() decoded
EnhanceFromData(original_prompt, response_data) ==
    IF response_data.t \notin {"dict", "str", "list"}
    THEN Handle("TypeError")                 \* 'response' in <int, None, ...>
    ELSE IF response_data.t = "list"
    THEN IF \E i \in 1..Len(response_data.v) :
                /\ response_data.v[i].t = "str"
                /\ response_data.v[i].v = K_response
         THEN Handle("TypeError")            \* [...]['response']
         ELSE Combine(original_prompt, PyStrOf(response_data))
    ELSE IF response_data.t = "str"
    THEN IF Contains(response_data.v, K_response)
         THEN Handle("TypeError")            \* "..."['response']
         ELSE Combine(original_prompt, PyStrOf(response_data))
    ELSE IF DictHas(response_data, K_response)
    THEN LET parsed == _parse_response(DictGet(response_data, K_response))
         IN IF parsed.kind = "raise"
            THEN Handle(parsed.exc)
            ELSE Combine(original_prompt, parsed.value)
    ELSE Combine(original_prompt, PyStrOf(response_data))

\* lines 172-214
enhance_prompt(original_prompt, post) ==
    IF post.kind = "raise" THEN Handle(post.exc)
    ELSE IF post.status # 200
    THEN Handle("OllamaAPIError")            \* raised at line 176, inside the try
    ELSE LET decoded == json_loads(post.body)
         IN IF ~decoded.ok
            THEN Handle("JSONDecodeError")   \* response.json()
            ELSE EnhanceFromData(original_prompt, decoded.val)

----------------------------------------------------------------------------
(* The bodies _parse_response is run on *)

MaxLines == 3
MaxMembers == 2

\* single lines: blank, comments, labelled, double-labelled, plain, brace-led
PlainLines == {
    <<>>,
    <<" ">>,
    <<"#", " ", "c">>,
    <<"/", "/", " ", "c">>,
    <<"R", "e", "s", "u", "l", "t", ":">>,
    <<"R", "e", "s", "u", "l", "t", ":", " ", "x">>,
    <<" ", "E", "n", "h", "a", "n", "c", "e", "d", " ", "p", "r", "o", "m", "p", "t", ":", " ", "a", " ", "c", "a", "t", "\r">>,
    <<"E", "n", "h", "a", "n", "c", "e", "d", ":", "O", "u", "t", "p", "u", "t", ":", " ", "y">>,
    <<"x">>,
    <<"{", "x">>,
    <<"{", "\"", "t", "e", "x", "t", "\"", ":", "\"", "t", "\"", "}">>,
    <<"O", "u", "t", "p", "u", "t", ":", " ", "#", "x">> }

\* members of a JSON object text, well-formed and not
MemberTexts == {
    <<"\"", "r", "e", "s", "p", "o", "n", "s", "e", "\"", ":", "\"", "x", "\"">>,
    <<"\"", "r", "e", "s", "p", "o", "n", "s", "e", "\"", ":", "\"", " ", "a", " ", "c", "a", "t", " ", "\"">>,
    <<"\"", "r", "e", "s", "p", "o", "n", "s", "e", "\"", ":", "5">>,
    <<"\"", "r", "e", "s", "p", "o", "n", "s", "e", "\"", ":", "n", "u", "l", "l">>,
    <<"\"", "r", "e", "s", "p", "o", "n", "s", "e", "\"", ":", "\"", "\"">>,
    <<"\"", "t", "e", "x", "t", "\"", ":", "\"", "t", "\"">>,
    <<"\"", "t", "e", "x", "t", "\"", ":", "5">>,
    <<"\"", "o", "t", "h", "e", "r", "\"", ":", "\"", "o", "\"">>,
    <<"\"", "r", "e", "s", "p", "o", "n", "s", "e", "\"", ":">> }

Leads == {
    <<>>,
    <<" ">>,
    <<"\f">>,
    <<"\n">> }

Trails == {
    <<>>,
    <<" ">>,
    <<"\n", "x">> }

SeqsUpTo(S, lo, hi) == UNION {[1..n -> S] : n \in lo..hi}

LineBodies == {join(ls, <<"\n">>) : ls \in SeqsUpTo(PlainLines, 1, MaxLines)}

ObjectTexts ==
    {<<"{">> \o join(ms, <<",">>) \o <<"}">> : ms \in SeqsUpTo(MemberTexts, 0, MaxMembers)}

JsonBodies == {l \o o \o t : l \in Leads, o \in ObjectTexts, t \in Trails}

ParseInputs == LineBodies \cup JsonBodies

----------------------------------------------------------------------------
(* One call of _parse_response on a str *)

NoOutcome == [kind |-> "none", value |-> <<>>, exc |-> "", err |-> FALSE]

ParseIdle ==
    /\ p_pc = "idle"
    /\ p_text = <<>>
    /\ p_out = NoOutcome

EnhanceIdle ==
    /\ e_pc = "idle"
    /\ e_prompt = <<>>
    /\ e_max_retries = 0
    /\ e_total = 0
    /\ e_log = <<>>
    /\ e_post = NoPost
    /\ e_out = NoResult

NoVerdict == [kind |-> "none", value |-> FALSE, exc |-> "", found |-> FALSE]

\* no OllamaConfig constructed yet
NoInstance == [ok |-> FALSE, value |-> <<>>]
\* ConfigManager._config is None
NoConfig == [ok |-> FALSE, value |-> <<>>]
\* no file at config_path
NoFile == [exists |-> FALSE, text |-> <<>>]
\* no call made on the manager yet
NoCall == [op |-> "none"]

NoList == [kind |-> "none", value |-> <<>>]
ReturnList(list) == [kind |-> "return", value |-> list]

BatchIdle ==
    /\ b_pc = "idle"
    /\ b_prompts = <<>>
    /\ b_i = 0
    /\ b_enhanced = <<>>
    /\ b_calls = <<>>
    /\ b_sleeps = <<>>
    /\ b_out = NoList

PoolIdle ==
    /\ c_pc = "idle"
    /\ c_prompts = <<>>
    /\ c_pool_size = 0
    /\ c_enhanced = <<>>
    /\ c_task = <<>>
    /\ c_client = <<>>
    /\ c_future = <<>>
    /\ c_order = <<>>
    /\ c_calls = <<>>
    /\ c_out = NoList

TestIdle ==
    /\ t_pc = "idle"
    /\ t_model = <<>>
    /\ t_get = NoPost
    /\ t_out = NoVerdict

CloseIdle ==
    /\ k_pc = "idle"
    /\ k_size = 0
    /\ k_clients = <<>>
    /\ k_fault = {}
    /\ k_session = <<>>
    /\ k_closes = <<>>
    /\ k_after = <<>>
    /\ k_i = 0
    /\ k_attempted = {}
    /\ k_out = "none"
    /\ k_pool_closes = 0
    /\ k_pool_after = <<>>
    /\ k_raised = FALSE

ConfigIdle ==
    /\ o_pc = "idle"
    /\ o_kwargs = <<>>
    /\ o_out = NoInstance
    /\ m_path = <<>>
    /\ m_config = NoConfig
    /\ m_file = NoFile
    /\ m_last = NoCall
    /\ m_steps = 0

RestIdle == TestIdle /\ CloseIdle /\ ConfigIdle

ParseInit ==
    /\ p_pc = "start"
    /\ p_text \in ParseInputs
    /\ p_out = NoOutcome
    /\ EnhanceIdle /\ BatchIdle /\ PoolIdle /\ RestIdle

ParseResponse ==
    /\ p_pc = "start"
    /\ p_out' = _parse_response(PyStr(p_text))
    /\ p_pc' = "done"
    /\ UNCHANGED p_text
    /\ UNCHANGED <<enhanceVars, batchVars, poolVars, restVars>>

ParseNext == ParseResponse

SpecParse == ParseInit /\ [][ParseNext]_vars

----------------------------------------------------------------------------
(* One call of enhance_prompt: the POST with its retries, then the result *)

\* config.max_retries is drawn from 1..MaxRetriesBound (config.py allows 1..10)
MaxRetriesBound == 2

Prompts == {
    <<"a", " ", "c", "a", "t">>,
    <<"{", "}">>,
    <<>> }

\* bodies of a 200 reply: the expected envelope, and others
ReplyBodies == {
    <<"{", "\"", "r", "e", "s", "p", "o", "n", "s", "e", "\"", ":", "\"", "o", "n", " ", "a", " ", "m", "a", "t", "\"", "}">>,
    <<"{", "\"", "r", "e", "s", "p", "o", "n", "s", "e", "\"", ":", "\"", "A", " ", "C", "A", "T", "\"", "}">>,
    <<"{", "\"", "r", "e", "s", "p", "o", "n", "s", "e", "\"", ":", "\"", "\"", "}">>,
    <<"{", "\"", "r", "e", "s", "p", "o", "n", "s", "e", "\"", ":", "\"", " ", "R", "e", "s", "u", "l", "t", ":", " ", "x", " ", "\"", "}">>,
    <<"{", "\"", "r", "e", "s", "p", "o", "n", "s", "e", "\"", ":", "5", "}">>,
    <<"{", "\"", "e", "r", "r", "o", "r", "\"", ":", "\"", "x", "\"", "}">>,
    <<"5">>,
    <<"o", "o", "p", "s">>,
    <<"\"", "r", "e", "s", "p", "o", "n", "s", "e", "\"">>,
    <<"\"", "x", "\"">>,
    <<"n", "u", "l", "l">>,
    <<"[", "5", "]">>,
    <<"{", "}">> }

\* body of every other reply
ErrorBody == <<"{", "\"", "e", "r", "r", "o", "r", "\"", ":", "\"", "x", "\"", "}">>

EnhanceInit ==
    /\ e_pc = "start"
    /\ e_prompt \in Prompts
    /\ e_max_retries \in 1..MaxRetriesBound
    /\ e_total = 0
    /\ e_log = <<>>
    /\ e_post = NoPost
    /\ e_out = NoResult
    /\ ParseIdle /\ BatchIdle /\ PoolIdle /\ RestIdle

\* lines 143-170: session.post starts with the Retry of line 46,
\* total = config.max_retries
SendRequest ==
    /\ e_pc = "start"
    /\ e_pc' = "sending"
    /\ e_total' = e_max_retries
    /\ UNCHANGED <<e_prompt, e_max_retries, e_log, e_post, e_out>>
    /\ UNCHANGED <<parseVars, batchVars, poolVars, restVars>>

\* urllib3 urlopen + Retry.increment: an attempt that is to be retried takes
\* one from total; with none left the request ends in the exception
\* HTTPAdapter.send makes of the MaxRetryError
RetryOrGiveUp(event) ==
    /\ e_total' = e_total - 1
    /\ IF e_total - 1 < 0
       THEN /\ e_post' = PostRaise(ExhaustedException(event))
            /\ e_pc' = "posted"
       ELSE /\ e_post' = e_post
            /\ e_pc' = "sending"

\* one attempt is answered with an HTTP status
AttemptStatus(status, retry_after, body) ==
    /\ e_pc = "sending"
    /\ e_log' = Append(e_log, StatusEvent(status, retry_after))
    /\ IF is_retry(e_total, status, retry_after)
       THEN RetryOrGiveUp(StatusEvent(status, retry_after))
       ELSE /\ e_post' = PostResponse(status, body)
            /\ e_pc' = "posted"
            /\ e_total' = e_total
    /\ UNCHANGED <<e_prompt, e_max_retries, e_out>>
    /\ UNCHANGED <<parseVars, batchVars, poolVars, restVars>>

\* one attempt fails below HTTP: refused, connect timeout, read timeout
AttemptError(error) ==
    /\ e_pc = "sending"
    /\ e_log' = Append(e_log, ErrorEvent(error))
    /\ RetryOrGiveUp(ErrorEvent(error))
    /\ UNCHANGED <<e_prompt, e_max_retries, e_out>>
    /\ UNCHANGED <<parseVars, batchVars, poolVars, restVars>>

\* lines 172-214
FinishEnhance ==
    /\ e_pc = "posted"
    /\ e_out' = enhance_prompt(e_prompt, e_post)
    /\ e_pc' = "done"
    /\ UNCHANGED <<e_prompt, e_max_retries, e_total, e_log, e_post>>
    /\ UNCHANGED <<parseVars, batchVars, poolVars, restVars>>

EnhanceNext ==
    \/ SendRequest
    \/ \E status \in Statuses :
          \E retry_after \in (IF status \in RetryAfterSenders THEN BOOLEAN ELSE {FALSE}),
             body \in (IF status = 200 THEN ReplyBodies ELSE {ErrorBody}) :
             AttemptStatus(status, retry_after, body)
    \/ \E error \in TransportErrors : AttemptError(error)
    \/ FinishEnhance

SpecEnhance == EnhanceInit /\ [][EnhanceNext]_vars

----------------------------------------------------------------------------
(* One call of enhance_prompts_batch *)

MaxBatch == 3

\* how the session.post of one enhance_prompt call of the loop may end
BatchPosts == {
    PostResponse(200, <<"{", "\"", "r", "e", "s", "p", "o", "n", "s", "e", "\"", ":", "\"", "o", "n", " ", "a", " ", "m", "a", "t", "\"", "}">>),
    PostResponse(200, <<"{", "\"", "e", "r", "r", "o", "r", "\"", ":", "\"", "x", "\"", "}">>),
    PostResponse(404, ErrorBody),
    PostRaise("ConnectTimeout") }

BatchInit ==
    /\ b_pc = "start"
    /\ b_prompts \in SeqsUpTo(Prompts, 0, MaxBatch)
    /\ b_i = 0
    /\ b_enhanced = <<>>
    /\ b_calls = <<>>
    /\ b_sleeps = <<>>
    /\ b_out = NoList
    /\ ParseIdle /\ EnhanceIdle /\ PoolIdle /\ RestIdle

\* where the loop of line 227 goes after the iteration for index i
AfterIteration(i, n) == IF i < n THEN "loop" ELSE "return"

\* line 225 and the first test of the loop
BatchStart ==
    /\ b_pc = "start"
    /\ b_enhanced' = <<>>
    /\ b_i' = 1
    /\ b_pc' = AfterIteration(0, Len(b_prompts))
    /\ UNCHANGED <<b_prompts, b_calls, b_sleeps, b_out>>
    /\ UNCHANGED <<parseVars, enhanceVars, poolVars, restVars>>

\* mutant: a failed prompt leaves an empty string in the list
BatchSlot_EmptyOnFailure(prompt, called) ==
    IF called.kind = "return" THEN called.value ELSE <<>>

\* lines 231 and 240: what is appended for a prompt
BatchSlot(prompt, called) ==
    IF called.kind = "return" THEN called.value ELSE prompt

\* lines 228-240, one iteration: enhance_prompt returns (append the result,
\* then sleep unless this was the last prompt) or raises (append the prompt)
BatchIteration(post) ==
    LET prompt == b_prompts[b_i]
        called == enhance_prompt(prompt, post)
    IN /\ b_pc = "loop"
       /\ b_calls' = Append(b_calls, called)
       /\ b_enhanced' = Append(b_enhanced, BatchSlot(prompt, called))
       /\ IF called.kind = "return"
          THEN /\ IF b_i < Len(b_prompts)
                  THEN b_pc' = "sleep" /\ b_i' = b_i
                  ELSE b_pc' = "return" /\ b_i' = b_i + 1
               /\ UNCHANGED b_sleeps
          ELSE /\ b_pc' = AfterIteration(b_i, Len(b_prompts))
               /\ b_i' = b_i + 1
               /\ UNCHANGED b_sleeps
       /\ UNCHANGED <<b_prompts, b_out>>
       /\ UNCHANGED <<parseVars, enhanceVars, poolVars, restVars>>

\* line 235
BatchSleep ==
    /\ b_pc = "sleep"
    /\ b_sleeps' = Append(b_sleeps, b_i)
    /\ b_i' = b_i + 1
    /\ b_pc' = "loop"
    /\ UNCHANGED <<b_prompts, b_enhanced, b_calls, b_out>>
    /\ UNCHANGED <<parseVars, enhanceVars, poolVars, restVars>>

\* line 242
BatchReturn ==
    /\ b_pc = "return"
    /\ b_out' = ReturnList(b_enhanced)
    /\ b_pc' = "done"
    /\ UNCHANGED <<b_prompts, b_i, b_enhanced, b_calls, b_sleeps>>
    /\ UNCHANGED <<parseVars, enhanceVars, poolVars, restVars>>

BatchNext ==
    \/ BatchStart
    \/ \E post \in BatchPosts : BatchIteration(post)
    \/ BatchSleep
    \/ BatchReturn

SpecBatch == BatchInit /\ [][BatchNext]_vars

----------------------------------------------------------------------------
(* One call of OllamaClientPool.enhance_prompts_concurrent *)

MaxPrompts == 3
MaxPoolSize == 2

\* the prompts of a call: the first n of this cycle, n = 0 .. MaxPrompts
PromptCycle == <<
    <<"a", " ", "c", "a", "t">>,
    <<"x">>,
    <<>> >>

PromptList(n) == [i \in 1..n |-> PromptCycle[((i - 1) % Len(PromptCycle)) + 1]]

\* how the session.post of one task's enhance_prompt may end
PoolPosts == {
    PostResponse(200, <<"{", "\"", "r", "e", "s", "p", "o", "n", "s", "e", "\"", ":", "\"", "o", "n", " ", "a", " ", "m", "a", "t", "\"", "}">>),
    PostResponse(200, <<"{", "\"", "r", "e", "s", "p", "o", "n", "s", "e", "\"", ":", "\"", "\"", "}">>),
    PostResponse(404, ErrorBody) }

Indices == 1..Len(c_prompts)

PoolInit ==
    /\ c_pc = "start"
    /\ c_prompts \in {PromptList(n) : n \in 0..MaxPrompts}
    /\ c_pool_size \in 1..MaxPoolSize
    /\ c_enhanced = <<>>
    /\ c_task = <<>>
    /\ c_client = <<>>
    /\ c_future = <<>>
    /\ c_order = <<>>
    /\ c_calls = <<>>
    /\ c_out = NoList
    /\ ParseIdle /\ EnhanceIdle /\ BatchIdle /\ RestIdle

\* mutant: every prompt goes to the first client
ClientFor_First(i, pool_size) == 0

\* line 330: the pooled client (counted from 0) of the prompt at position i
\* (counted from 1)
ClientFor(i, pool_size) == (i - 1) % pool_size

\* mutant: the empty list is not told apart
NotPrompts_Never(prompts) == FALSE

\* line 311: `not prompts`
NotPrompts(prompts) == Len(prompts) = 0

\* lines 311-332: the empty list returns at once; otherwise the slots are
\* filled with "" and one coroutine per prompt is created
ConcurrentStart ==
    /\ c_pc = "start"
    /\ IF NotPrompts(c_prompts)
       THEN /\ c_out' = ReturnList(<<>>)
            /\ c_pc' = "done"
            /\ UNCHANGED <<c_enhanced, c_task, c_client, c_future, c_calls>>
       ELSE /\ c_enhanced' = [i \in Indices |-> <<>>]
            /\ c_calls' = [i \in Indices |-> <<>>]
            /\ c_task' = [i \in Indices |-> "created"]
            /\ c_client' = [i \in Indices |-> ClientFor(i, c_pool_size)]
            /\ c_future' = [i \in Indices |-> NoResult]
            /\ c_pc' = "gathering"
            /\ UNCHANGED c_out
    /\ UNCHANGED <<c_prompts, c_pool_size, c_order>>
    /\ UNCHANGED <<parseVars, enhanceVars, batchVars, restVars>>

\* lines 319-321, up to the await: the event loop starts the tasks that
\* gather made in the order of their creation; each hands its call to the
\* executor
TaskSubmit(i) ==
    /\ c_pc = "gathering"
    /\ c_task[i] = "created"
    /\ \A j \in 1..(i - 1) : c_task[j] # "created"
    /\ c_task' = [c_task EXCEPT ![i] = "queued"]
    /\ UNCHANGED <<c_pc, c_prompts, c_pool_size, c_enhanced, c_client,
                   c_future, c_order, c_calls, c_out>>
    /\ UNCHANGED <<parseVars, enhanceVars, batchVars, restVars>>

\* a worker thread of the executor enters client.enhance_prompt(prompt), the
\* client being the one the coroutine was created with (line 330)
ThreadStart(i) ==
    /\ c_pc = "gathering"
    /\ c_task[i] = "queued"
    /\ c_task' = [c_task EXCEPT ![i] = "running"]
    /\ c_calls' = [c_calls EXCEPT ![i] = Append(@, c_client[i])]
    /\ UNCHANGED <<c_pc, c_prompts, c_pool_size, c_enhanced, c_client,
                   c_future, c_order, c_out>>
    /\ UNCHANGED <<parseVars, enhanceVars, batchVars, restVars>>

\* the worker thread leaves client.enhance_prompt: the future holds its
\* result or its exception
ThreadFinish(i, post) ==
    /\ c_pc = "gathering"
    /\ c_task[i] = "running"
    /\ c_future' = [c_future EXCEPT ![i] = enhance_prompt(c_prompts[i], post)]
    /\ c_task' = [c_task EXCEPT ![i] = "executed"]
    /\ UNCHANGED <<c_pc, c_prompts, c_pool_size, c_enhanced, c_client,
                   c_order, c_calls, c_out>>
    /\ UNCHANGED <<parseVars, enhanceVars, batchVars, restVars>>

\* mutant: results are stored in the order in which the tasks finish
SlotFor_ByArrival(i, order) == Len(order) + 1

\* lines 322 and 325: the slot a task writes is that of its own index
SlotFor(i, order) == i

\* mutant: a failed task leaves its slot as it was
TaskSlot_KeepOnFailure(prompt, future, old) ==
    IF future.kind = "return" THEN future.value ELSE old

\* lines 322 and 325: what the task stores, old being the slot's content
TaskSlot(prompt, future, old) ==
    IF future.kind = "return" THEN future.value ELSE prompt

\* lines 322-325: the event loop resumes the task of a finished future (after
\* the first step of every task, which gather scheduled before); the task
\* stores the result, or the prompt when the call raised
TaskResume(i) ==
    LET slot == SlotFor(i, c_order)
    IN /\ c_pc = "gathering"
       /\ c_task[i] = "executed"
       /\ \A j \in Indices : c_task[j] # "created"
       /\ c_enhanced' = [c_enhanced EXCEPT
                           ![slot] = TaskSlot(c_prompts[i], c_future[i], @)]
       /\ c_order' = Append(c_order, i)
       /\ c_task' = [c_task EXCEPT ![i] = "done"]
       /\ UNCHANGED <<c_pc, c_prompts, c_pool_size, c_client, c_future,
                      c_calls, c_out>>
       /\ UNCHANGED <<parseVars, enhanceVars, batchVars, restVars>>

\* lines 335-337: gather ends when every task has ended
GatherReturn ==
    /\ c_pc = "gathering"
    /\ \A i \in Indices : c_task[i] = "done"
    /\ c_out' = ReturnList(c_enhanced)
    /\ c_pc' = "done"
    /\ UNCHANGED <<c_prompts, c_pool_size, c_enhanced, c_task, c_client,
                   c_future, c_order, c_calls>>
    /\ UNCHANGED <<parseVars, enhanceVars, batchVars, restVars>>

PoolNext ==
    \/ ConcurrentStart
    \/ \E i \in Indices : TaskSubmit(i)
    \/ \E i \in Indices : ThreadStart(i)
    \/ \E i \in Indices, post \in PoolPosts : ThreadFinish(i, post)
    \/ \E i \in Indices : TaskResume(i)
    \/ GatherReturn

SpecPool == PoolInit /\ [][PoolNext]_vars

----------------------------------------------------------------------------
(* One call of OllamaClient.test_connection *)

K_models == <<"m", "o", "d", "e", "l", "s">>
K_name   == <<"n", "a", "m", "e">>

\* test_connection returns value; exc is the exception the handler of line
\* 275 caught, found whether line 265 saw the configured model
Verdict(value, exc, found) ==
    [kind |-> "return", value |-> value, exc |-> exc, found |-> found]

\* line 259: data.get('models', [])
ModelsOf(data) ==
    IF DictHas(data, K_models) THEN DictGet(data, K_models) ELSE PyList(<<>>)

\* line 260, `for model in models`: what iterating a value yields (the
\* elements of a list, the characters of a str, the keys of a dict)
Iterable(x) == x.t \in {"list", "str", "dict"}

Elements(x) ==
    CASE x.t = "list" -> x.v
      [] x.t = "str"  -> [i \in 1..Len(x.v) |-> PyStr(<<x.v[i]>>)]
      [] x.t = "dict" -> LET keys == DictKeys(x.v, {})
                         IN [i \in 1..Len(keys) |-> PyStr(keys[i])]

\* line 260: model.get('name', '')
NameOf(model) ==
    IF DictHas(model, K_name) THEN DictGet(model, K_name) ELSE PyStr(<<>>)

\* lines 250-277
test_connection(model, get) ==
    IF get.kind = "raise" THEN Verdict(FALSE, get.exc, FALSE)
    ELSE IF get.status # 200 THEN Verdict(FALSE, "", FALSE)
    ELSE LET decoded == json_loads(get.body)
         IN IF ~decoded.ok THEN Verdict(FALSE, "JSONDecodeError", FALSE)
            ELSE IF decoded.val.t # "dict"
            THEN Verdict(FALSE, "AttributeError", FALSE)       \* data.get
            ELSE LET models == ModelsOf(decoded.val)
                 IN IF ~Iterable(models)
                    THEN Verdict(FALSE, "TypeError", FALSE)    \* not iterable
                    ELSE LET elems == Elements(models)
                         IN IF \E i \in 1..Len(elems) : elems[i].t # "dict"
                            THEN Verdict(FALSE, "AttributeError", FALSE) \* model.get
                            ELSE Verdict(TRUE, "",
                                    \E i \in 1..Len(elems) :
                                       /\ NameOf(elems[i]).t = "str"
                                       /\ NameOf(elems[i]).v = model)

\* values of config.model
TestModels == { <<"m">>, <<"n">>, <<"x">> }

\* bodies of a 200 reply of GET /api/tags
TagsBodies == {
    <<"{", "\"", "m", "o", "d", "e", "l", "s", "\"", ":", "[", "{", "\"", "n", "a", "m", "e", "\"", ":", "\"", "m", "\"", "}", ",", "{", "\"", "n", "a", "m", "e", "\"", ":", "\"", "n", "\"", "}", "]", "}">>,
    <<"{", "\"", "m", "o", "d", "e", "l", "s", "\"", ":", "[", "]", "}">>,
    <<"{", "\"", "m", "o", "d", "e", "l", "s", "\"", ":", "n", "u", "l", "l", "}">>,
    <<"{", "}">>,
    <<"{", "\"", "m", "o", "d", "e", "l", "s", "\"", ":", "[", "5", "]", "}">>,
    <<"{", "\"", "m", "o", "d", "e", "l", "s", "\"", ":", "[", "{", "}", "]", "}">>,
    <<"{", "\"", "m", "o", "d", "e", "l", "s", "\"", ":", "\"", "a", "b", "\"", "}">>,
    <<"{", "\"", "m", "o", "d", "e", "l", "s", "\"", ":", "\"", "\"", "}">>,
    <<"{", "\"", "m", "o", "d", "e", "l", "s", "\"", ":", "{", "}", "}">>,
    <<"{", "\"", "m", "o", "d", "e", "l", "s", "\"", ":", "{", "\"", "n", "a", "m", "e", "\"", ":", "\"", "m", "\"", "}", "}">>,
    <<"{", "\"", "m", "o", "d", "e", "l", "s", "\"", ":", "[", "{", "\"", "n", "a", "m", "e", "\"", ":", "5", "}", "]", "}">>,
    <<"[", "]">>,
    <<"o", "o", "p", "s">>,
    <<"\"", "m", "\"">>,
    <<"n", "u", "l", "l">>,
    <<"{", "\"", "m", "o", "d", "e", "l", "s", "\"", ":", "5", "}">>,
    <<>> }

\* how self.session.get may end: GET is not among the allowed_methods of
\* line 50, so a status is returned as it came
TagsGets ==
    {PostResponse(200, body) : body \in TagsBodies}
        \cup {PostResponse(status, ErrorBody) : status \in {404, 500}}
        \cup {PostRaise(exc) : exc \in {"ConnectionError", "ConnectTimeout", "ReadTimeout"}}

TestInit ==
    /\ t_pc = "start"
    /\ t_model \in TestModels
    /\ t_get = NoPost
    /\ t_out = NoVerdict
    /\ ParseIdle /\ EnhanceIdle /\ BatchIdle /\ PoolIdle /\ CloseIdle /\ ConfigIdle

\* lines 254-255
GetTags(get) ==
    /\ t_pc = "start"
    /\ t_get' = get
    /\ t_pc' = "got"
    /\ UNCHANGED <<t_model, t_out>>
    /\ UNCHANGED <<firstVars, closeVars, configVars>>

\* lines 257-277
FinishTest ==
    /\ t_pc = "got"
    /\ t_out' = test_connection(t_model, t_get)
    /\ t_pc' = "done"
    /\ UNCHANGED <<t_model, t_get>>
    /\ UNCHANGED <<firstVars, closeVars, configVars>>

TestNext ==
    \/ \E get \in TagsGets : GetTags(get)
    \/ FinishTest

SpecTest == TestInit /\ [][TestNext]_vars

----------------------------------------------------------------------------
(* OllamaClient.close and OllamaClientPool.close on a pool of clients *)

\* close() calls in a row that are followed
MaxCloses == 3

Clients == 1..k_size

\* mutant: one client instance is put into the list pool_size times
NewClients_Shared(pool_size) == [i \in 1..pool_size |-> 1]

\* lines 295 and 299-300: the list starts empty and every turn of the loop
\* appends a new OllamaClient; instances are named by the turn that made them
NewClients(pool_size) == [i \in 1..pool_size |-> i]

\* mutant: closing a session whose pools are cleared already raises
close_RaisesWhenCleared(session, faulty) ==
    IF faulty \/ session = "cleared"
    THEN [session |-> session, raised |-> TRUE]
    ELSE [session |-> "cleared", raised |-> FALSE]

\* lines 279-282: self.session is a Session, which is true, so its close()
\* is called; requests clears the connection pools of every adapter and
\* keeps the session, unless this session's close() raises
close(session, faulty) ==
    IF faulty
    THEN [session |-> session, raised |-> TRUE]
    ELSE [session |-> "cleared", raised |-> FALSE]

\* the bookkeeping of one client.close() that returned
Closed(i, closed) ==
    /\ k_session' = [k_session EXCEPT ![i] = closed.session]
    /\ k_closes' = [k_closes EXCEPT ![i] = IF @ < MaxCloses THEN @ + 1 ELSE @]
    /\ k_after' = [k_after EXCEPT ![i] = IF k_closes[i] = 0 THEN closed.session ELSE @]

\* lines 288-300: pool_size clients, each with a session of its own
CloseInitWith(faults) ==
    /\ k_pc = "ready"
    /\ k_size \in 1..MaxPoolSize
    /\ k_clients = NewClients(k_size)
    /\ k_fault \in faults
    /\ k_session = [i \in 1..k_size |-> "cleared"]
    /\ k_closes = [i \in 1..k_size |-> 0]
    /\ k_after = [i \in 1..k_size |-> "none"]
    /\ k_i = 0
    /\ k_attempted = {}
    /\ k_out = "none"
    /\ k_pool_closes = 0
    /\ k_pool_after = <<>>
    /\ k_raised = FALSE
    /\ ParseIdle /\ EnhanceIdle /\ BatchIdle /\ PoolIdle /\ TestIdle /\ ConfigIdle

\* every session.close() works, as that of requests does
CloseInit == CloseInitWith({{}})

\* the session.close() of any of the clients may raise
CloseFaultyInit == CloseInitWith(SUBSET (1..MaxPoolSize)) /\ k_fault \subseteq Clients

\* client i sends a request (lines 166 and 255): its session holds
\* connections again
UseClient(i) ==
    /\ k_pc = "ready"
    /\ k_session' = [k_session EXCEPT ![i] = "live"]
    /\ k_closes' = [k_closes EXCEPT ![i] = 0]
    /\ k_after' = [k_after EXCEPT ![i] = "none"]
    /\ k_pool_closes' = 0
    /\ k_pool_after' = <<>>
    /\ UNCHANGED <<k_pc, k_size, k_clients, k_fault, k_i, k_attempted, k_out,
                   k_raised>>
    /\ UNCHANGED <<firstVars, testVars, configVars>>

\* the positions in self.clients that a call of enhance_prompts_concurrent
\* with n prompts takes its clients from (line 330)
UsedBy(n) == {ClientFor(i, k_size) + 1 : i \in 1..n}

\* lines 311-337: a whole call of enhance_prompts_concurrent with n prompts.
\* The empty list returns at once; otherwise every client that was given a
\* prompt has sent its request, which succeeded or failed, and its session
\* holds connections again.  self.clients is only read.
PoolEnhance(n) ==
    /\ k_pc = "ready"
    /\ IF n = 0
       THEN UNCHANGED <<k_session, k_closes, k_after, k_pool_closes, k_pool_after>>
       ELSE /\ k_session' = [i \in Clients |->
                                IF i \in UsedBy(n) THEN "live" ELSE k_session[i]]
            /\ k_closes' = [i \in Clients |->
                               IF i \in UsedBy(n) THEN 0 ELSE k_closes[i]]
            /\ k_after' = [i \in Clients |->
                              IF i \in UsedBy(n) THEN "none" ELSE k_after[i]]
            /\ k_pool_closes' = 0
            /\ k_pool_after' = <<>>
    /\ UNCHANGED <<k_pc, k_size, k_clients, k_fault, k_i, k_attempted, k_out,
                   k_raised>>
    /\ UNCHANGED <<firstVars, testVars, configVars>>

\* lines 279-282: client i's close() is called directly
ClientClose(i) ==
    LET closed == close(k_session[i], i \in k_fault)
    IN /\ k_pc = "ready"
       /\ IF closed.raised
          THEN /\ k_raised' = TRUE
               /\ UNCHANGED <<k_session, k_closes, k_after>>
          ELSE /\ Closed(i, closed)
               /\ UNCHANGED k_raised
       /\ UNCHANGED <<k_pc, k_size, k_clients, k_fault, k_i, k_attempted,
                      k_out, k_pool_closes, k_pool_after>>
       /\ UNCHANGED <<firstVars, testVars, configVars>>

\* line 341: pool.close() enters its loop over self.clients
PoolCloseStart ==
    /\ k_pc = "ready"
    /\ k_pc' = "closing"
    /\ k_i' = 1
    /\ k_attempted' = {}
    /\ k_out' = "none"
    /\ UNCHANGED <<k_size, k_clients, k_fault, k_session, k_closes, k_after,
                   k_pool_closes, k_pool_after, k_raised>>
    /\ UNCHANGED <<firstVars, testVars, configVars>>

\* line 342: client.close() for the client at the loop's position; an
\* exception of it leaves the loop and pool.close()
PoolCloseStep ==
    LET closed == close(k_session[k_i], k_i \in k_fault)
    IN /\ k_pc = "closing"
       /\ k_i <= k_size
       /\ k_attempted' = k_attempted \cup {k_i}
       /\ IF closed.raised
          THEN /\ k_raised' = TRUE
               /\ k_out' = "raise"
               /\ k_pc' = "ready"
               /\ UNCHANGED <<k_session, k_closes, k_after, k_i>>
          ELSE /\ Closed(k_i, closed)
               /\ k_i' = k_i + 1
               /\ UNCHANGED <<k_raised, k_out, k_pc>>
       /\ UNCHANGED <<k_size, k_clients, k_fault, k_pool_closes, k_pool_after>>
       /\ UNCHANGED <<firstVars, testVars, configVars>>

\* lines 341-342: the loop is over, pool.close() returns
PoolCloseReturn ==
    /\ k_pc = "closing"
    /\ k_i > k_size
    /\ k_out' = "return"
    /\ k_pc' = "ready"
    /\ k_pool_closes' = IF k_pool_closes < MaxCloses THEN k_pool_closes + 1
                        ELSE k_pool_closes
    /\ k_pool_after' = IF k_pool_closes = 0 THEN k_session ELSE k_pool_after
    /\ UNCHANGED <<k_size, k_clients, k_fault, k_session, k_closes, k_after,
                   k_i, k_attempted, k_raised>>
    /\ UNCHANGED <<firstVars, testVars, configVars>>

CloseNext ==
    \/ \E i \in Clients : UseClient(i)
    \/ \E n \in 0..MaxPrompts : PoolEnhance(n)
    \/ \E i \in Clients : ClientClose(i)
    \/ PoolCloseStart
    \/ PoolCloseStep
    \/ PoolCloseReturn

SpecClose == CloseInit /\ [][CloseNext]_vars

SpecCloseFaulty == CloseFaultyInit /\ [][CloseNext]_vars

----------------------------------------------------------------------------
(* src/src/ollama/config.py: the pydantic models.  Of Config the sections   *)
(* ollama (all four fields) and performance (cpu_limit_percent) are         *)
(* modelled; the other sections and fields are validated and merged by the  *)
(* same rules.  Values given for the fields are str, int, None, Url or      *)
(* dict; URLs are lower-case, without user, query or default port.          *)

K_endpoint == <<"e", "n", "d", "p", "o", "i", "n", "t">>
K_model == <<"m", "o", "d", "e", "l">>
K_timeout == <<"t", "i", "m", "e", "o", "u", "t">>
K_max_retries == <<"m", "a", "x", "_", "r", "e", "t", "r", "i", "e", "s">>
K_ollama == <<"o", "l", "l", "a", "m", "a">>
K_performance == <<"p", "e", "r", "f", "o", "r", "m", "a", "n", "c", "e">>
K_cpu_limit_percent == <<"c", "p", "u", "_", "l", "i", "m", "i", "t", "_", "p", "e", "r", "c", "e", "n", "t">>

\* line 12 and line 13: the defaults
DefaultEndpoint == <<"h", "t", "t", "p", ":", "/", "/", "l", "o", "c", "a", "l", "h", "o", "s", "t", ":", "1", "1", "4", "3", "4">>
DefaultModel == <<"o", "p", "e", "n", "h", "e", "r", "m", "e", "s">>

\* a pydantic Url object, v the text str() gives for it
PyUrl(s) == [t |-> "url", v |-> s]

\* how the validation of one field ends
Invalid == [ok |-> FALSE, val |-> PyNone]
Valid(val) == [ok |-> TRUE, val |-> val]

\* the position of the first c in s, Len(s) + 1 if there is none
RECURSIVE IndexOf(_, _)
IndexOf(s, c) ==
    IF Len(s) = 0 \/ Head(s) = c THEN 1 ELSE 1 + IndexOf(Tail(s), c)

\* the length of the http or https scheme with its ://, 0 for any other text
SchemeLen(s) ==
    IF startswith(s, <<"h", "t", "t", "p", ":", "/", "/">>) THEN 7
    ELSE IF startswith(s, <<"h", "t", "t", "p", "s", ":", "/", "/">>) THEN 8
    ELSE 0

\* line 12, HttpUrl: the scheme is http or https and a host follows; the
\* Url built has the path / where the text has none
HttpUrl(s) ==
    LET n == SchemeLen(s)
        rest == SubSeq(s, n + 1, Len(s))
        slash == IndexOf(rest, "/")
        host == SubSeq(rest, 1, slash - 1)
        path == SubSeq(rest, slash, Len(rest))
    IN IF n = 0 \/ Len(host) = 0 THEN Invalid
       ELSE Valid(PyUrl(SubSeq(s, 1, n) \o host
                          \o (IF Len(path) = 0 THEN <<"/">> ELSE path)))

\* line 12: a default is not validated, so it stays the str it is
EndpointField(given, x) ==
    IF ~given THEN Valid(PyStr(DefaultEndpoint))
    ELSE IF x.t \in {"str", "url"} THEN HttpUrl(x.v)
    ELSE Invalid

\* lines 13 and 17-23: validate_model runs on a given str
ModelField(given, x) ==
    IF ~given THEN Valid(PyStr(DefaultModel))
    ELSE IF x.t # "str" THEN Invalid
    ELSE IF Len(x.v) = 0 \/ Len(strip(x.v)) = 0 THEN Invalid
    ELSE Valid(PyStr(strip(x.v)))

\* mutant: a value out of the range is moved to the nearest bound
IntField_Clamped(given, x, default, ge, le) ==
    IF ~given THEN Valid(PyInt(default))
    ELSE IF x.t # "int" THEN Invalid
    ELSE IF TextToNat(x.v, 0) < ge THEN Valid(PyInt(NatToText(ge)))
    ELSE IF TextToNat(x.v, 0) > le THEN Valid(PyInt(NatToText(le)))
    ELSE Valid(x)

\* lines 14-15 and 67: Field(default=..., ge=..., le=...) of an int field
IntField(given, x, default, ge, le) ==
    IF ~given THEN Valid(PyInt(default))
    ELSE IF x.t # "int" THEN Invalid
    ELSE IF TextToNat(x.v, 0) >= ge /\ TextToNat(x.v, 0) <= le THEN Valid(x)
    ELSE Invalid

\* d.get(key): the value of a given key, None for a key that is not given
Given(d, key) ==
    IF d.t = "dict" /\ DictHas(d, key) THEN DictGet(d, key) ELSE PyNone

\* lines 9-23: OllamaConfig(**kwargs); keys that name no field are ignored
OllamaConfig(kwargs) ==
    LET endpoint == EndpointField(DictHas(kwargs, K_endpoint), Given(kwargs, K_endpoint))
        model == ModelField(DictHas(kwargs, K_model), Given(kwargs, K_model))
        timeout == IntField(DictHas(kwargs, K_timeout), Given(kwargs, K_timeout),
                            <<"3", "0">>, 1, 300)
        max_retries == IntField(DictHas(kwargs, K_max_retries),
                                Given(kwargs, K_max_retries), <<"5">>, 1, 10)
    IN IF endpoint.ok /\ model.ok /\ timeout.ok /\ max_retries.ok
       THEN [ok |-> TRUE,
             value |-> [endpoint |-> endpoint.val, model |-> model.val,
                        timeout |-> timeout.val, max_retries |-> max_retries.val]]
       ELSE [ok |-> FALSE, value |-> <<>>]

----------------------------------------------------------------------------
(* One construction of an OllamaConfig *)

\* a keyword argument that is left out, or given one of the values
Arg(key, values) == {<<>>} \cup {<<[k |-> key, v |-> x]>> : x \in values}

EndpointArgs == {
    PyStr(<<"h", "t", "t", "p", ":", "/", "/", "l", "o", "c", "a", "l", "h", "o", "s", "t", ":", "1", "1", "4", "3", "4">>),
    PyStr(<<"h", "t", "t", "p", "s", ":", "/", "/", "h", "/", "a", "p", "i">>),
    PyStr(<<"f", "t", "p", ":", "/", "/", "h">>),
    PyStr(<<"h">>) }

ModelArgs == {
    PyStr(<<>>), PyStr(<<" ">>), PyStr(<<"m">>), PyStr(<<" ", "m", "\t">>) }

TimeoutArgs == {
    PyInt(<<"0">>), PyInt(<<"1">>), PyInt(<<"3", "0", "0">>),
    PyInt(<<"3", "0", "1">>), PyNone }

MaxRetriesArgs == {
    PyInt(<<"0">>), PyInt(<<"1">>), PyInt(<<"1", "0">>), PyInt(<<"1", "1">>) }

KwargsInputs ==
    {PyDict(e \o m \o t \o r) :
        e \in Arg(K_endpoint, EndpointArgs), m \in Arg(K_model, ModelArgs),
        t \in Arg(K_timeout, TimeoutArgs), r \in Arg(K_max_retries, MaxRetriesArgs)}

OllamaConfigInit ==
    /\ o_pc = "start"
    /\ o_kwargs \in KwargsInputs
    /\ o_out = NoInstance
    /\ m_path = <<>>
    /\ m_config = NoConfig
    /\ m_file = NoFile
    /\ m_last = NoCall
    /\ m_steps = 0
    /\ ParseIdle /\ EnhanceIdle /\ BatchIdle /\ PoolIdle /\ TestIdle /\ CloseIdle

Construct ==
    /\ o_pc = "start"
    /\ o_out' = OllamaConfig(o_kwargs)
    /\ o_pc' = "done"
    /\ UNCHANGED <<o_kwargs, m_path, m_config, m_file, m_last, m_steps>>
    /\ UNCHANGED <<firstVars, testVars, closeVars>>

OllamaConfigNext == Construct

SpecOllamaConfig == OllamaConfigInit /\ [][OllamaConfigNext]_vars

----------------------------------------------------------------------------
(* Config, its dump, the JSON of the file, and deep_update *)

\* lines 64-67: PerformanceConfig(**kwargs), of which cpu_limit_percent
PerformanceConfig(kwargs) ==
    LET cpu == IntField(DictHas(kwargs, K_cpu_limit_percent),
                        Given(kwargs, K_cpu_limit_percent), <<"5", "0">>, 10, 100)
    IN IF cpu.ok
       THEN [ok |-> TRUE, value |-> [cpu_limit_percent |-> cpu.val]]
       ELSE [ok |-> FALSE, value |-> <<>>]

\* the data a section of Config is built from: none when it is not given
\* (default_factory), a given dict; any other value is a validation error
SectionData(given, x) ==
    IF ~given THEN Valid(PyDict(<<>>))
    ELSE IF x.t = "dict" THEN Valid(x)
    ELSE Invalid

\* lines 70-77: Config(**data)
Config(data) ==
    LET ollama_data == SectionData(DictHas(data, K_ollama), Given(data, K_ollama))
        performance_data == SectionData(DictHas(data, K_performance),
                                        Given(data, K_performance))
        ollama == IF ollama_data.ok THEN OllamaConfig(ollama_data.val)
                  ELSE [ok |-> FALSE, value |-> <<>>]
        performance == IF performance_data.ok
                       THEN PerformanceConfig(performance_data.val)
                       ELSE [ok |-> FALSE, value |-> <<>>]
    IN IF ollama.ok /\ performance.ok
       THEN [ok |-> TRUE,
             value |-> [ollama |-> ollama.value, performance |-> performance.value]]
       ELSE [ok |-> FALSE, value |-> <<>>]

\* lines 140 and 168: self._config.model_dump(), the fields as they are held
model_dump(config) ==
    PyDict(<<
        [k |-> K_ollama, v |-> PyDict(<<
            [k |-> K_endpoint, v |-> config.ollama.endpoint],
            [k |-> K_model, v |-> config.ollama.model],
            [k |-> K_timeout, v |-> config.ollama.timeout],
            [k |-> K_max_retries, v |-> config.ollama.max_retries] >>)],
        [k |-> K_performance, v |-> PyDict(<<
            [k |-> K_cpu_limit_percent, v |-> config.performance.cpu_limit_percent] >>)] >>)

RECURSIVE Spaces(_)
Spaces(n) == IF n = 0 THEN <<>> ELSE <<" ">> \o Spaces(n - 1)

RECURSIVE JsonDump(_, _)
RECURSIVE JsonDumpItems(_, _, _, _)

\* line 140, json.dump(..., indent=2): the items of a dict from the i-th
\* on, after the text written so far; what cannot be encoded ends the
\* writing where it stands
JsonDumpItems(ps, i, level, written) ==
    IF i > Len(ps)
    THEN [ok |-> TRUE, text |-> written \o <<"\n">> \o Spaces(2 * level) \o <<"}">>]
    ELSE LET head == written \o (IF i = 1 THEN <<>> ELSE <<",">>)
                        \o <<"\n">> \o Spaces(2 * (level + 1))
                        \o <<"\"">> \o ps[i].k \o <<"\"", ":", " ">>
             val == JsonDump(ps[i].v, level + 1)
         IN IF val.ok
            THEN JsonDumpItems(ps, i + 1, level, head \o val.text)
            ELSE [ok |-> FALSE, text |-> head \o val.text]

\* line 140: the text json.dump writes for a dumped value, and whether it
\* got to the end; a Url is not JSON serializable
JsonDump(x, level) ==
    CASE x.t = "str" -> [ok |-> TRUE, text |-> <<"\"">> \o x.v \o <<"\"">>]
      [] x.t = "int" -> [ok |-> TRUE, text |-> x.v]
      [] x.t = "dict" ->
            IF Len(x.v) = 0 THEN [ok |-> TRUE, text |-> <<"{", "}">>]
            ELSE JsonDumpItems(x.v, 1, level, <<"{">>)
      [] OTHER -> [ok |-> FALSE, text |-> <<>>]

\* base_dict[key] = value
DictSet(d, key, value) ==
    IF DictHas(d, key)
    THEN PyDict([i \in 1..Len(d.v) |->
                   IF d.v[i].k = key THEN [k |-> key, v |-> value] ELSE d.v[i]])
    ELSE PyDict(Append(d.v, [k |-> key, v |-> value]))

RECURSIVE deep_update(_, _)
RECURSIVE DeepUpdateItems(_, _, _)

\* lines 172-176: the loop over update_dict.items() from the i-th item on
DeepUpdateItems(base, ps, i) ==
    IF i > Len(ps) THEN [ok |-> TRUE, val |-> base]
    ELSE IF base.t # "dict" THEN [ok |-> FALSE, val |-> base]  \* TypeError
    ELSE IF ps[i].v.t = "dict" /\ DictHas(base, ps[i].k)
    THEN LET inner == deep_update(DictGet(base, ps[i].k), ps[i].v)
         IN IF inner.ok
            THEN DeepUpdateItems(DictSet(base, ps[i].k, inner.val), ps, i + 1)
            ELSE [ok |-> FALSE, val |-> base]
    ELSE DeepUpdateItems(DictSet(base, ps[i].k, ps[i].v), ps, i + 1)

\* lines 171-176
deep_update(base_dict, update_dict) == DeepUpdateItems(base_dict, update_dict.v, 1)

----------------------------------------------------------------------------
(* A ConfigManager and the file at its config_path *)

\* calls made on one manager
MaxCalls == 4

File(text) == [exists |-> TRUE, text |-> text]

\* how a call ends: raised or not, with the _config and the file it leaves
Ended(raised, config, file) == [raised |-> raised, config |-> config, file |-> file]

\* the position of the last c in s, 0 if there is none
LastIndexOf(s, c) ==
    IF \E i \in 1..Len(s) : s[i] = c
    THEN CHOOSE i \in 1..Len(s) : s[i] = c /\ \A j \in (i + 1)..Len(s) : s[j] # c
    ELSE 0

\* s without the slashes at its end
RECURSIVE RstripSlash(_)
RstripSlash(s) ==
    IF s # <<>> /\ s[Len(s)] = "/" THEN RstripSlash(SubSeq(s, 1, Len(s) - 1)) ELSE s

\* os.path.dirname: the part up to the last slash, without the slashes at
\* its end unless it is made of slashes only
dirname(path) ==
    LET head == SubSeq(path, 1, LastIndexOf(path, "/"))
    IN IF \A i \in 1..Len(head) : head[i] = "/" THEN head ELSE RstripSlash(head)

\* os.makedirs(name, exist_ok=True) creates what is missing of a directory
\* path or leaves it as it is; the empty name raises FileNotFoundError
makedirs(name) == name # <<>>

\* lines 132-142: the directory of the path is made; the file is opened for
\* writing and holds what json.dump wrote, all of it or the part before the
\* value it could not encode
save_config(config_path, config, file) ==
    IF ~config.ok THEN Ended(TRUE, config, file)
    ELSE IF ~makedirs(dirname(config_path)) THEN Ended(TRUE, config, file)
    ELSE LET dumped == JsonDump(model_dump(config.value), 0)
         IN Ended(~dumped.ok, config, File(dumped.text))

\* lines 109-124
load_config(config_path, config, file) ==
    IF file.exists
    THEN LET config_data == json_loads(file.text)
         IN IF ~config_data.ok THEN Ended(TRUE, config, file)       \* line 121
            ELSE IF config_data.val.t # "dict" THEN Ended(TRUE, config, file)
            ELSE LET built == Config(config_data.val)
                 IN IF built.ok THEN Ended(FALSE, built, file)
                    ELSE Ended(TRUE, config, file)                  \* line 123
    ELSE save_config(config_path, Config(PyDict(<<>>)), file)

\* lines 150-152
get_config(config_path, config, file) ==
    IF ~config.ok THEN load_config(config_path, config, file) ELSE Ended(FALSE, config, file)

\* lines 163-164: what update_config starts from
Loaded(config_path, config, file) ==
    IF ~config.ok THEN load_config(config_path, config, file) ELSE Ended(FALSE, config, file)

\* mutant: the merged data are kept without being validated
Revalidate_Skipped(merged) ==
    [ok |-> TRUE,
     value |-> [ollama |->
                  [endpoint |-> Given(Given(merged, K_ollama), K_endpoint),
                   model |-> Given(Given(merged, K_ollama), K_model),
                   timeout |-> Given(Given(merged, K_ollama), K_timeout),
                   max_retries |-> Given(Given(merged, K_ollama), K_max_retries)],
                performance |->
                  [cpu_limit_percent |->
                     Given(Given(merged, K_performance), K_cpu_limit_percent)]]]

\* line 181: Config(**current_data)
Revalidate(merged) == Config(merged)

\* lines 163-184
update_config(config_path, config, file, updates) ==
    LET loaded == Loaded(config_path, config, file)
    IN IF loaded.raised THEN loaded
       ELSE LET merged == deep_update(model_dump(loaded.config.value), updates)
            IN IF ~merged.ok THEN Ended(TRUE, loaded.config, loaded.file)
               ELSE LET built == Revalidate(merged.val)
                    IN IF built.ok THEN Ended(FALSE, built, loaded.file)
                       ELSE Ended(TRUE, loaded.config, loaded.file)

\* the file before the manager's first call: none, a complete one as
\* save_config lays it out, a partial one, and three that cannot be loaded
InitialFiles == {
    NoFile,
    File(<<"{", "\n", " ", " ", "\"", "o", "l", "l", "a", "m", "a", "\"", ":", " ", "{", "\n", " ", " ", " ", " ", "\"", "e", "n", "d", "p", "o", "i", "n", "t", "\"", ":", " ", "\"", "h", "t", "t", "p", "s", ":", "/", "/", "h", "/", "a", "p", "i", "\"", ",", "\n", " ", " ", " ", " ", "\"", "m", "o", "d", "e", "l", "\"", ":", " ", "\"", "m", "\"", ",", "\n", " ", " ", " ", " ", "\"", "t", "i", "m", "e", "o", "u", "t", "\"", ":", " ", "6", "0", ",", "\n", " ", " ", " ", " ", "\"", "m", "a", "x", "_", "r", "e", "t", "r", "i", "e", "s", "\"", ":", " ", "3", "\n", " ", " ", "}", ",", "\n", " ", " ", "\"", "p", "e", "r", "f", "o", "r", "m", "a", "n", "c", "e", "\"", ":", " ", "{", "\n", " ", " ", " ", " ", "\"", "c", "p", "u", "_", "l", "i", "m", "i", "t", "_", "p", "e", "r", "c", "e", "n", "t", "\"", ":", " ", "8", "0", "\n", " ", " ", "}", "\n", "}">>),
    File(<<"{", "\"", "o", "l", "l", "a", "m", "a", "\"", ":", " ", "{", "\"", "t", "i", "m", "e", "o", "u", "t", "\"", ":", " ", "3", "0", "0", "}", "}">>),
    File(<<"o", "o", "p", "s">>),
    File(<<"{", "\"", "o", "l", "l", "a", "m", "a", "\"", ":", " ", "{", "\"", "t", "i", "m", "e", "o", "u", "t", "\"", ":", " ", "0", "}", "}">>),
    File(<<"[", "]">>) }

\* the config_path of a manager: with a directory part, as the default path
\* of lines 89-93 has, and a bare file name
ConfigPaths == {
    <<"c", "f", "g", "/", "c", ".", "j">>,
    <<"c", ".", "j">> }

\* the arguments of update_config
Updates == {
    PyDict(<<[k |-> K_ollama, v |-> PyDict(<<[k |-> K_timeout, v |-> PyInt(<<"9", "0">>)]>>)]>>),
    PyDict(<<[k |-> K_ollama, v |-> PyDict(<<[k |-> K_model, v |-> PyStr(<<"m">>)], [k |-> K_timeout, v |-> PyInt(<<"9", "0">>)]>>)], [k |-> K_performance, v |-> PyDict(<<[k |-> K_cpu_limit_percent, v |-> PyInt(<<"8", "0">>)]>>)]>>),
    PyDict(<<[k |-> K_ollama, v |-> PyDict(<<[k |-> K_timeout, v |-> PyInt(<<"5", "0", "0">>)]>>)]>>),
    PyDict(<<[k |-> K_performance, v |-> PyDict(<<[k |-> K_cpu_limit_percent, v |-> PyInt(<<"5">>)]>>)]>>),
    PyDict(<<[k |-> K_ollama, v |-> PyDict(<<[k |-> K_endpoint, v |-> PyStr(<<"h", "t", "t", "p", "s", ":", "/", "/", "h", "/", "a", "p", "i">>)]>>)]>>),
    PyDict(<<[k |-> K_ollama, v |-> PyDict(<<[k |-> K_model, v |-> PyStr(<<" ">>)]>>)]>>),
    PyDict(<<[k |-> K_ollama, v |-> PyInt(<<"5">>)]>>) }

ManagerInit ==
    /\ m_path \in ConfigPaths
    /\ m_config = NoConfig
    /\ m_file \in InitialFiles
    /\ m_last = NoCall
    /\ m_steps = 0
    /\ o_pc = "idle"
    /\ o_kwargs = <<>>
    /\ o_out = NoInstance
    /\ ParseIdle /\ EnhanceIdle /\ BatchIdle /\ PoolIdle /\ TestIdle /\ CloseIdle

\* one call on the manager: what it was, what it found and what it met
Call(op, updates, loaded, ended) ==
    /\ m_steps < MaxCalls
    /\ m_steps' = m_steps + 1
    /\ m_config' = ended.config
    /\ m_file' = ended.file
    /\ m_last' = [op |-> op, raised |-> ended.raised, updates |-> updates,
                  before |-> m_config, file_before |-> m_file,
                  loaded |-> loaded, prev |-> m_last.op,
                  prev_raised |-> (m_last.op # "none" /\ m_last.raised)]
    /\ UNCHANGED <<o_pc, o_kwargs, o_out, m_path>>
    /\ UNCHANGED <<firstVars, testVars, closeVars>>

LoadConfig ==
    Call("load", PyDict(<<>>), Ended(FALSE, m_config, m_file),
         load_config(m_path, m_config, m_file))

SaveConfig ==
    Call("save", PyDict(<<>>), Ended(FALSE, m_config, m_file),
         save_config(m_path, m_config, m_file))

GetConfig ==
    Call("get", PyDict(<<>>), Ended(FALSE, m_config, m_file),
         get_config(m_path, m_config, m_file))

UpdateConfig(updates) ==
    Call("update", updates, Loaded(m_path, m_config, m_file),
         update_config(m_path, m_config, m_file, updates))

ManagerNext ==
    \/ LoadConfig
    \/ SaveConfig
    \/ GetConfig
    \/ \E updates \in Updates : UpdateConfig(updates)

SpecManager == ManagerInit /\ [][ManagerNext]_vars

----------------------------------------------------------------------------
(* Properties of _parse_response *)

\* the body parses as a JSON object that has a response or a text field
BodyJson == json_loads(p_text)

BodyIsObjectWithField ==
    /\ BodyJson.ok
    /\ BodyJson.val.t = "dict"
    /\ (DictHas(BodyJson.val, K_response) \/ DictHas(BodyJson.val, K_text))

\* the field the claim selects: response when present, else text
SelectedField ==
    IF DictHas(BodyJson.val, K_response)
    THEN DictGet(BodyJson.val, K_response)
    ELSE DictGet(BodyJson.val, K_text)

\* a line with its label, if it starts with one, removed and trimmed again
CutLabel(line) ==
    IF \E i \in 1..Len(prefixes) : startswith(line, prefixes[i])
    THEN LET i == CHOOSE j \in 1..Len(prefixes) : startswith(line, prefixes[j])
         IN strip(SubSeq(line, Len(prefixes[i]) + 1, Len(line)))
    ELSE line

\* non-empty, no comment, and non-empty once the label is removed
Qualifies(rawLine) ==
    LET line == strip(rawLine)
    IN /\ line # <<>>
       /\ ~startswith(line, <<"#">>)
       /\ ~startswith(line, <<"/", "/">>)
       /\ CutLabel(line) # <<>>

BodyLines == splitlines(p_text)

QualifyingLines == {i \in 1..Len(BodyLines) : Qualifies(BodyLines[i])}

FirstQualifying == CHOOSE i \in QualifyingLines : \A j \in QualifyingLines : i <= j

\* what the line scan is said to return
LineScanResult ==
    IF QualifyingLines # {}
    THEN CutLabel(strip(BodyLines[FirstQualifying]))
    ELSE strip(p_text)

\* the body starts with a brace and json.loads rejects it
BodyIsBrokenJson == startswith(strip(p_text), <<"{">>) /\ ~BodyJson.ok

----------------------------------------------------------------------------
(* Properties of enhance_prompt *)

\* what response.json() makes of the reply that session.post returned
ReplyData == json_loads(e_post.body)

\* the envelope the client expects: an object whose response field is a str
EnvelopeExpected ==
    /\ ReplyData.ok
    /\ ReplyData.val.t = "dict"
    /\ DictHas(ReplyData.val, K_response)
    /\ DictGet(ReplyData.val, K_response).t = "str"

\* C4: when enhance_prompt returns, the result is original + ", " + addition
\* if the extracted addition is non-empty and differs from the original
\* case-insensitively, and the original otherwise; with the expected envelope
\* the addition is what _parse_response extracts from its response field.
C4_CombinationRule ==
    (e_pc = "done" /\ e_out.kind = "return") =>
        /\ IF e_out.addition # <<>> /\ lower(e_out.addition) # lower(e_prompt)
           THEN e_out.value = e_prompt \o <<",", " ">> \o e_out.addition
           ELSE e_out.value = e_prompt
        /\ EnvelopeExpected =>
              e_out.addition =
                  _parse_response(DictGet(ReplyData.val, K_response)).value

\* C4 witness: the addition equals the prompt up to case only, and the
\* prompt comes back unchanged.
C4_Witness ==
    /\ e_pc = "done"
    /\ e_out.kind = "return"
    /\ EnvelopeExpected
    /\ e_out.addition # <<>>
    /\ e_out.addition # e_prompt
    /\ lower(e_out.addition) = lower(e_prompt)
    /\ e_out.value = e_prompt

\* a failure as C5 lists them: the POST raised, the final status is not 200,
\* the body does not decode, or the envelope is not the expected one
ClaimedFailure ==
    \/ e_post.kind = "raise"
    \/ e_post.status # 200
    \/ ~EnvelopeExpected

\* C5 as stated: every such failure ends in OllamaAPIError, never in a
\* returned string.
C5_Original ==
    (e_pc = "done" /\ ClaimedFailure) =>
        (e_out.kind = "raise" /\ e_out.exc = "OllamaAPIError")

\* a decoded envelope the code cannot read: a number, a boolean or null, an
\* object whose response is no str, a str that contains the word response,
\* or an array that has the str response as an element
EnvelopeUnusable ==
    /\ ReplyData.ok
    /\ \/ ReplyData.val.t \in {"int", "float", "bool", "none"}
       \/ /\ ReplyData.val.t = "list"
          /\ \E i \in 1..Len(ReplyData.val.v) :
                /\ ReplyData.val.v[i].t = "str"
                /\ ReplyData.val.v[i].v = K_response
       \/ /\ ReplyData.val.t = "dict"
          /\ DictHas(ReplyData.val, K_response)
          /\ DictGet(ReplyData.val, K_response).t # "str"
       \/ /\ ReplyData.val.t = "str"
          /\ Contains(ReplyData.val.v, K_response)

HardFailure ==
    \/ e_post.kind = "raise"
    \/ e_post.status # 200
    \/ ~ReplyData.ok
    \/ EnvelopeUnusable

\* C5 amended: a raised POST, a non-200 final status, an undecodable body and
\* an unusable envelope end in OllamaAPIError and nothing else; every other
\* 200 reply, the envelope without a response field included, ends in a
\* returned string; no exception but OllamaAPIError leaves enhance_prompt.
C5_FailuresRaiseApiError ==
    e_pc = "done" =>
        /\ HardFailure => (e_out.kind = "raise" /\ e_out.exc = "OllamaAPIError")
        /\ ~HardFailure => e_out.kind = "return"
        /\ e_out.kind = "raise" => e_out.exc = "OllamaAPIError"

\* C5 witness: the retries were used up on a retryable status; the
\* RetryError of the POST left enhance_prompt as OllamaAPIError.
C5_Witness ==
    /\ e_pc = "done"
    /\ e_post = PostRaise("RetryError")
    /\ e_out.kind = "raise"
    /\ e_out.exc = "OllamaAPIError"
    /\ e_out.cause = "RetryError"

LastEvent == e_log[Len(e_log)]

\* the class of the failure the request met last
FailureClass ==
    IF LastEvent.kind = "error"
    THEN IF LastEvent.error = "ConnectError" THEN "connection" ELSE "timeout"
    ELSE IF LastEvent.status # 200 THEN "status" ELSE "none"

\* the class the raised error is reported as: by the handler that built its
\* message, a status error being one that no handler rewrapped
ReportedClass(out) ==
    CASE out.handler = "Timeout" -> "timeout"
      [] out.handler = "ConnectionError" -> "connection"
      [] out.handler = "Exception" -> "unexpected"
      [] OTHER -> "status"

\* C6: a failed generate call is reported as the class of its failure:
\* timeout, connection or HTTP status, never another class and never the
\* generic unexpected error.
C6_FailureClassIdentified ==
    (e_pc = "done" /\ FailureClass # "none") =>
        (e_out.kind = "raise" /\ ReportedClass(e_out) = FailureClass)

\* C6 witness: the POST was answered 404 once, and the OllamaAPIError of
\* line 176 came out of the catch-all handler as an unexpected error.
C6_Witness ==
    /\ e_pc = "done"
    /\ Len(e_log) = 1
    /\ LastEvent.kind = "status"
    /\ LastEvent.status = 404
    /\ e_out.kind = "raise"
    /\ e_out.handler = "Exception"
    /\ e_out.cause = "OllamaAPIError"

AllForcelist ==
    /\ Len(e_log) > 0
    /\ \A i \in 1..Len(e_log) :
          e_log[i].kind = "status" /\ e_log[i].status \in status_forcelist

RequestOver == e_pc \in {"posted", "done"}

\* C7 as stated: a forcelist status is retried while attempts remain, any
\* other status is never retried, and a call whose every attempt met a
\* forcelist status makes max_retries attempts.
C7_Original ==
    /\ \A i \in 1..Len(e_log) :
          e_log[i].kind = "status" =>
              IF e_log[i].status \in status_forcelist
              THEN (i = Len(e_log) /\ Len(e_log) < e_max_retries)
                       => e_pc = "sending"
              ELSE i = Len(e_log) /\ e_pc # "sending"
    /\ (RequestOver /\ AllForcelist) => Len(e_log) = e_max_retries

\* C7 amended: a forcelist status is retried while retries remain; any other
\* status is never retried unless it is 413 with a Retry-After header; no
\* call makes more than max_retries + 1 attempts, and a call whose every
\* attempt met a forcelist status makes exactly max_retries + 1 and ends in
\* a RetryError.
C7_RetryPolicy ==
    /\ \A i \in 1..Len(e_log) :
          e_log[i].kind = "status" =>
              IF e_log[i].status \in status_forcelist
              THEN (i = Len(e_log) /\ Len(e_log) <= e_max_retries)
                       => e_pc = "sending"
              ELSE IF e_log[i].status = 413 /\ e_log[i].retry_after
              THEN TRUE
              ELSE i = Len(e_log) /\ e_pc # "sending"
    /\ Len(e_log) <= e_max_retries + 1
    /\ (RequestOver /\ AllForcelist) =>
          /\ Len(e_log) = e_max_retries + 1
          /\ e_post = PostRaise("RetryError")

\* C7 witness: every attempt met a forcelist status, 429 and 500 among
\* them, and the call ended after max_retries + 1 attempts.
C7_Witness ==
    /\ e_pc = "done"
    /\ AllForcelist
    /\ Len(e_log) = e_max_retries + 1
    /\ Len(e_log) >= 3
    /\ \E i, j \in 1..Len(e_log) : e_log[i].status = 429 /\ e_log[j].status = 500

----------------------------------------------------------------------------
(* Properties of enhance_prompts_batch *)

\* C3: enhance_prompts_batch returns (it never raises) a list as long as its
\* input; every prompt was processed, a failure at an index not stopping the
\* later ones; slot i holds what enhance_prompt returned for prompts[i], or
\* prompts[i] itself if that call raised.
C3_BatchFallback ==
    /\ b_out.kind # "raise"
    /\ b_pc \in {"start", "loop", "sleep", "return"} => ENABLED BatchNext
    /\ b_pc = "done" =>
          /\ b_out.kind = "return"
          /\ Len(b_out.value) = Len(b_prompts)
          /\ Len(b_calls) = Len(b_prompts)
          /\ \A i \in 1..Len(b_prompts) :
                b_out.value[i] = IF b_calls[i].kind = "return"
                                 THEN b_calls[i].value
                                 ELSE b_prompts[i]

\* C3 witness: the first call failed, the slot fell back to its non-empty
\* prompt, and a later call still ran and succeeded with an addition.
C3_Witness ==
    /\ b_pc = "done"
    /\ Len(b_prompts) >= 2
    /\ b_calls[1].kind = "raise"
    /\ b_prompts[1] # <<>>
    /\ b_out.value[1] = b_prompts[1]
    /\ \E i \in 2..Len(b_prompts) :
          /\ b_calls[i].kind = "return"
          /\ b_out.value[i] = b_calls[i].value
          /\ b_out.value[i] # b_prompts[i]

----------------------------------------------------------------------------
(* Properties of enhance_prompts_concurrent *)

\* the outcome for prompts[i]: what its enhance_prompt returned, or the
\* prompt itself if it raised
OutcomeFor(i) ==
    IF c_future[i].kind = "return" THEN c_future[i].value ELSE c_prompts[i]

\* C1: for a non-empty list and every pool size, whatever the order in which
\* the tasks finish, the returned list is as long as the input, position i
\* holds the outcome for prompts[i], and every slot was written, once.
C1_OrderPreserved ==
    (c_pc = "done" /\ Len(c_prompts) > 0) =>
        /\ c_out.kind = "return"
        /\ Len(c_out.value) = Len(c_prompts)
        /\ \A i \in Indices : c_out.value[i] = OutcomeFor(i)
        /\ Len(c_order) = Len(c_prompts)
        /\ {c_order[k] : k \in 1..Len(c_order)} = Indices

\* C1 witness: three prompts with three different outcomes, the last
\* prompt's task finishing first.
C1_Witness ==
    /\ c_pc = "done"
    /\ Len(c_prompts) >= 3
    /\ c_order[1] = Len(c_prompts)
    /\ c_order[Len(c_order)] = 1
    /\ \A i, j \in Indices : i # j => c_out.value[i] # c_out.value[j]
    /\ \A i \in Indices : c_out.value[i] = OutcomeFor(i)

\* C2: whatever subset of the enhancements fails, the call returns normally
\* and never gets stuck (while gathering, a worker thread is still running
\* or a task or gather itself can take its next step); every failed index
\* holds exactly its prompt; every other task ran to its end and its enhanced
\* result is in its slot.
C2_FailureIsolated ==
    /\ c_out.kind # "raise"
    /\ c_pc = "gathering" =>
          \/ \E i \in Indices : c_task[i] = "running"
          \/ ENABLED (\E i \in Indices : TaskSubmit(i))
          \/ ENABLED (\E i \in Indices : ThreadStart(i))
          \/ ENABLED (\E i \in Indices : TaskResume(i))
          \/ ENABLED GatherReturn
    /\ (c_pc = "done" /\ Len(c_prompts) > 0) =>
          /\ c_out.kind = "return"
          /\ \A i \in Indices :
                /\ c_task[i] = "done"
                /\ c_future[i].kind \in {"return", "raise"}
                /\ c_future[i].kind = "raise" => c_out.value[i] = c_prompts[i]
                /\ c_future[i].kind = "return" =>
                       c_out.value[i] = c_future[i].value

\* C2 witness: three prompts on a pool of two; a task failed first and its
\* slot holds its non-empty prompt; a task that finished after it holds an
\* enhanced result.
C2_Witness ==
    /\ c_pc = "done"
    /\ Len(c_prompts) = 3
    /\ c_pool_size = 2
    /\ c_future[c_order[1]].kind = "raise"
    /\ c_prompts[c_order[1]] # <<>>
    /\ c_out.value[c_order[1]] = c_prompts[c_order[1]]
    /\ \E k \in 2..Len(c_order) :
          /\ c_future[c_order[k]].kind = "return"
          /\ c_out.value[c_order[k]] = c_future[c_order[k]].value
          /\ c_out.value[c_order[k]] # c_prompts[c_order[k]]

\* C11: with an empty prompt list the call goes from its start straight to
\* its return of the empty list: it never gathers, no task exists, no
\* client's enhance_prompt is entered and no slot is written.
C11_EmptyReturnsAtOnce ==
    Len(c_prompts) = 0 =>
        /\ c_pc \in {"start", "done"}
        /\ c_task = <<>>
        /\ c_future = <<>>
        /\ c_order = <<>>
        /\ c_pc = "done" => c_out = ReturnList(<<>>)

\* C11 witness: the call with the empty list has returned the empty list.
C11_Witness ==
    /\ c_pc = "done"
    /\ Len(c_prompts) = 0
    /\ c_out = ReturnList(<<>>)
    /\ c_task = <<>>

----------------------------------------------------------------------------
(* Properties of test_connection *)

\* C12: test_connection never raises, and returns True exactly when the
\* GET /api/tags was answered with status 200, whatever the reply holds.
C12_TrueIffStatus200 ==
    t_pc = "done" =>
        /\ t_out.kind = "return"
        /\ t_out.value = (t_get.kind = "response" /\ t_get.status = 200)

\* C12 witness: the GET was answered 200 with {"models":null}, iterating
\* None raised inside the try, and test_connection returned False.
C12_Witness ==
    /\ t_pc = "done"
    /\ t_get.kind = "response"
    /\ t_get.status = 200
    /\ json_loads(t_get.body).ok
    /\ json_loads(t_get.body).val.t = "dict"
    /\ ModelsOf(json_loads(t_get.body).val).t = "none"
    /\ t_out = Verdict(FALSE, "TypeError", FALSE)

----------------------------------------------------------------------------
(* Properties of close *)

\* C13: with sessions whose close() works, no close() of a client or of the
\* pool raises, whatever was done before; a client closed twice or more in
\* a row is in the state its first close() left, and so are the sessions of
\* a pool closed twice or more in a row.
C13_CloseIdempotent ==
    /\ ~k_raised
    /\ k_out # "raise"
    /\ \A i \in Clients : k_closes[i] >= 2 => k_session[i] = k_after[i]
    /\ (k_pc = "ready" /\ k_pool_closes >= 2) => k_session = k_pool_after

\* C13 witness: after requests on every client the pool was closed twice in
\* a row, and a client was closed twice in a row, without a change after
\* the first close.
C13_Witness ==
    /\ k_pc = "ready"
    /\ k_size >= 2
    /\ k_pool_closes >= 2
    /\ k_out = "return"
    /\ \A i \in Clients : k_closes[i] >= 2 /\ k_after[i] = "cleared"
    /\ k_session = k_pool_after

\* C14: when pool.close() has ended, by returning or by raising, close()
\* was attempted on every client of the pool.
C14_EveryClientClosed ==
    (k_pc = "ready" /\ k_out \in {"return", "raise"}) =>
        k_attempted = Clients

\* C14 witness: the close() of the first of two clients raised, pool.close()
\* ended with that exception, and the second client, whose session holds
\* connections, was never closed.
C14_Witness ==
    /\ k_pc = "ready"
    /\ k_size = 2
    /\ k_fault = {1}
    /\ k_out = "raise"
    /\ k_attempted = {1}
    /\ k_session[2] = "live"

----------------------------------------------------------------------------
(* Properties of OllamaConfig *)

\* the given value of an int field is an int in lo..hi
InRange(kwargs, key, lo, hi) ==
    /\ DictGet(kwargs, key).t = "int"
    /\ TextToNat(DictGet(kwargs, key).v, 0) >= lo
    /\ TextToNat(DictGet(kwargs, key).v, 0) <= hi

\* the three conditions of C15, a field that is left out taking its default
RangesMet ==
    /\ DictHas(o_kwargs, K_timeout) => InRange(o_kwargs, K_timeout, 1, 300)
    /\ DictHas(o_kwargs, K_max_retries) => InRange(o_kwargs, K_max_retries, 1, 10)
    /\ DictHas(o_kwargs, K_model) =>
          /\ DictGet(o_kwargs, K_model).t = "str"
          /\ \E i \in 1..Len(DictGet(o_kwargs, K_model).v) :
                DictGet(o_kwargs, K_model).v[i] \notin Whitespace

\* the given endpoint is an http or https URL with a host
EndpointMet ==
    DictHas(o_kwargs, K_endpoint) =>
        /\ DictGet(o_kwargs, K_endpoint).t = "str"
        /\ \E n \in {7, 8} :
              /\ SchemeLen(DictGet(o_kwargs, K_endpoint).v) = n
              /\ Len(DictGet(o_kwargs, K_endpoint).v) > n
              /\ DictGet(o_kwargs, K_endpoint).v[n + 1] # "/"

\* C15 as stated: the construction succeeds exactly when timeout,
\* max_retries and model meet their conditions.
C15_Original ==
    o_pc = "done" => (o_out.ok <=> RangesMet)

\* C15 amended: the construction succeeds exactly when timeout, max_retries
\* and model meet their conditions and the endpoint, if given, is an http or
\* https URL; a value out of its range fails and is never clamped: a
\* constructed instance holds the given timeout and max_retries as given
\* and the given model trimmed.
C15_ValidatedNotClamped ==
    o_pc = "done" =>
        /\ o_out.ok <=> (RangesMet /\ EndpointMet)
        /\ o_out.ok =>
              /\ DictHas(o_kwargs, K_timeout) =>
                    o_out.value.timeout = DictGet(o_kwargs, K_timeout)
              /\ DictHas(o_kwargs, K_max_retries) =>
                    o_out.value.max_retries = DictGet(o_kwargs, K_max_retries)
              /\ DictHas(o_kwargs, K_model) =>
                    o_out.value.model = PyStr(strip(DictGet(o_kwargs, K_model).v))

\* C15 witness: timeout 301 alone made the construction fail.
C15_Witness ==
    /\ o_pc = "done"
    /\ ~o_out.ok
    /\ DictHas(o_kwargs, K_timeout)
    /\ DictGet(o_kwargs, K_timeout) = PyInt(<<"3", "0", "1">>)
    /\ DictHas(o_kwargs, K_max_retries)
    /\ InRange(o_kwargs, K_max_retries, 1, 10)
    /\ DictHas(o_kwargs, K_model)
    /\ DictGet(o_kwargs, K_model) = PyStr(<<"m">>)
    /\ EndpointMet

----------------------------------------------------------------------------
(* Properties of ConfigManager *)

SameConfig(a, b) == a.ok = b.ok /\ (a.ok => a.value = b.value)

\* the fields of the modelled Config, as <<section, field>>
Fields == {
    <<K_ollama, K_endpoint>>, <<K_ollama, K_model>>, <<K_ollama, K_timeout>>,
    <<K_ollama, K_max_retries>>, <<K_performance, K_cpu_limit_percent>> }

\* the value a configuration holds for a field
FieldOf(config, f) == Given(Given(model_dump(config), f[1]), f[2])

\* the override names the field
Named(updates, f) ==
    /\ Given(updates, f[1]).t = "dict"
    /\ DictHas(Given(updates, f[1]), f[2])

\* the value of an override for a field, as validation leaves it
NewValue(updates, f) ==
    LET x == Given(Given(updates, f[1]), f[2])
    IN IF f[2] = K_endpoint THEN HttpUrl(x.v).val
       ELSE IF f[2] = K_model THEN PyStr(strip(x.v))
       ELSE x

UpdateDone == m_last.op = "update" /\ ~m_last.raised

\* C16: after an update that succeeded every field named in the override
\* holds the new value, and every other field holds the value it had when
\* the update began.
C16_DeepMerge ==
    UpdateDone =>
        \A f \in Fields :
            IF Named(m_last.updates, f)
            THEN FieldOf(m_config.value, f) = NewValue(m_last.updates, f)
            ELSE FieldOf(m_config.value, f) = FieldOf(m_last.loaded.config.value, f)

\* C16 witness: an update of the timeout alone, on the defaults, succeeded;
\* the timeout is the new one, and the endpoint, which the override does
\* not name, went from the default text to a Url with a trailing slash.
C16_Witness ==
    /\ UpdateDone
    /\ m_last.before.ok
    /\ Named(m_last.updates, <<K_ollama, K_timeout>>)
    /\ ~Named(m_last.updates, <<K_ollama, K_endpoint>>)
    /\ FieldOf(m_config.value, <<K_ollama, K_timeout>>) = PyInt(<<"9", "0">>)
    /\ FieldOf(m_last.before.value, <<K_ollama, K_endpoint>>) = PyStr(DefaultEndpoint)
    /\ FieldOf(m_config.value, <<K_ollama, K_endpoint>>) = PyUrl(DefaultEndpoint \o <<"/">>)

\* an int field of a configuration is an int within lo..hi
Within(x, lo, hi) ==
    /\ x.t = "int"
    /\ TextToNat(x.v, 0) >= lo
    /\ TextToNat(x.v, 0) <= hi

\* the configuration satisfies the declared ranges
RangesHold(config) ==
    /\ Within(config.ollama.timeout, 1, 300)
    /\ Within(config.ollama.max_retries, 1, 10)
    /\ Within(config.performance.cpu_limit_percent, 10, 100)
    /\ config.ollama.model.t = "str"
    /\ \E i \in 1..Len(config.ollama.model.v) :
          config.ollama.model.v[i] \notin Whitespace

\* the last call was an update whose merged data do not validate
MergedInvalid ==
    /\ m_last.op = "update"
    /\ ~m_last.loaded.raised
    /\ LET merged == deep_update(model_dump(m_last.loaded.config.value),
                                 m_last.updates)
       IN merged.ok /\ ~Config(merged.val).ok

\* C17 as stated: such an update raises and leaves the configuration and
\* the file as they were before the call; every configuration held
\* satisfies the ranges.
C17_Original ==
    /\ MergedInvalid =>
          /\ m_last.raised
          /\ SameConfig(m_config, m_last.before)
          /\ m_file = m_last.file_before
    /\ m_config.ok => RangesHold(m_config.value)

\* C17 amended: such an update raises and leaves the configuration and the
\* file as they were when the merge began, that is as they were before the
\* call if the manager held a configuration, and as update_config's own
\* load_config left them if it held none; every configuration held
\* satisfies the ranges.
C17_FailedUpdateKeepsConfig ==
    /\ MergedInvalid =>
          /\ m_last.raised
          /\ SameConfig(m_config, m_last.loaded.config)
          /\ m_file = m_last.loaded.file
          /\ m_last.before.ok =>
                /\ SameConfig(m_config, m_last.before)
                /\ m_file = m_last.file_before
    /\ m_config.ok => RangesHold(m_config.value)

\* C17 witness: after a successful update of the timeout to 90, an update
\* to 500 raised and the timeout is still 90.
C17_Witness ==
    /\ MergedInvalid
    /\ m_last.raised
    /\ m_last.prev = "update"
    /\ ~m_last.prev_raised
    /\ Given(Given(m_last.updates, K_ollama), K_timeout) = PyInt(<<"5", "0", "0">>)
    /\ m_config.ok
    /\ m_config.value.ollama.timeout = PyInt(<<"9", "0">>)

\* C18: save_config succeeds for every configuration held, and a
\* load_config that follows a save_config succeeds and yields the
\* configuration that was saved, equal in every field.
C18_SaveLoadRoundTrip ==
    /\ (m_last.op = "save" /\ m_last.before.ok) => ~m_last.raised
    /\ (m_last.op = "load" /\ m_last.prev = "save" /\ ~m_last.prev_raised) =>
          /\ ~m_last.raised
          /\ SameConfig(m_config, m_last.before)

\* C18 witness: a complete, valid file was loaded; the save_config that
\* followed raised on the Url of the endpoint and left the file cut off
\* after the endpoint's key.
C18_Witness ==
    /\ m_last.op = "save"
    /\ m_last.prev = "load"
    /\ ~m_last.prev_raised
    /\ m_last.before.ok
    /\ m_last.raised
    /\ m_file.exists
    /\ ~json_loads(m_file.text).ok
    /\ json_loads(m_last.file_before.text).ok

----------------------------------------------------------------------------
(* Further properties of enhance_prompts_concurrent and enhance_prompts_batch *)

\* the tasks whose client.enhance_prompt is being run by a worker thread
InFlight == {i \in DOMAIN c_task : c_task[i] = "running"}

\* C19: no two tasks that are in flight at the same time use the same
\* pooled client, and with it the same session; the tasks write nothing but
\* the result list, each its own slot.
C19_NoSharedSession ==
    /\ \A i, j \in InFlight : i # j => c_client[i] # c_client[j]
    /\ \A n \in 1..Len(c_order) :
          c_enhanced[c_order[n]] = OutcomeFor(c_order[n])

\* C19 witness: two prompts on a pool of one client: both tasks are in
\* flight at once, in the enhance_prompt of the same client.
C19_Witness ==
    /\ c_pc = "gathering"
    /\ c_pool_size = 1
    /\ Len(c_prompts) = 2
    /\ InFlight = {1, 2}
    /\ c_client[1] = c_client[2]

\* C20: the calls are made in input order, and when the batch is done the
\* delay ran after every call but the last, whether the call succeeded or
\* failed, and never after the last.
C20_DelayBetweenCalls ==
    /\ Len(b_calls) <= Len(b_prompts)
    /\ b_pc \in {"loop", "sleep"} => b_i = Len(b_calls) + (IF b_pc = "loop" THEN 1 ELSE 0)
    /\ b_pc = "done" =>
          b_sleeps = [i \in 1..(Len(b_prompts) - 1) |-> i]

\* C20 witness: of two prompts the first call failed; the second call
\* followed with no delay in between.
C20_Witness ==
    /\ b_pc = "done"
    /\ Len(b_prompts) = 2
    /\ Len(b_calls) = 2
    /\ b_calls[1].kind = "raise"
    /\ b_sleeps = <<>>

----------------------------------------------------------------------------
(* Properties of the pool's assignment of prompts to clients *)

\* C21: for every pool size N >= 1, the prompt at index i (counted from 0)
\* is given to the client at index i mod N when its coroutine is created and
\* keeps it to the end of the call; enhance_prompt is entered for it on that
\* client only, never before its task was handed to the executor, and once:
\* not a second time after it failed, on that client or on another.
C21_RoundRobinOnce ==
    (c_pc \in {"gathering", "done"} /\ Len(c_prompts) > 0) =>
        \A i \in Indices :
            /\ c_client[i] = (i - 1) % c_pool_size
            /\ c_client[i] \in 0..(c_pool_size - 1)
            /\ c_task[i] \in {"created", "queued"} => c_calls[i] = <<>>
            /\ c_task[i] \in {"running", "executed", "done"} =>
                   c_calls[i] = <<(i - 1) % c_pool_size>>

\* C21 witness: three prompts on a pool of two have ended; the third prompt
\* went back to the first client; the first prompt's call failed and was
\* made once all the same.
C21_Witness ==
    /\ c_pc = "done"
    /\ Len(c_prompts) = 3
    /\ c_pool_size = 2
    /\ c_calls = <<(<<0>>), (<<1>>), (<<0>>)>>
    /\ c_future[1].kind = "raise"
    /\ c_future[2].kind = "return"

----------------------------------------------------------------------------
(* Properties of the first load of a ConfigManager *)

\* Config(): the default configuration
Defaults == Config(PyDict(<<>>))

\* the manager's last call was its first load, direct or through
\* get_config, and there was no file at its path
FirstLoadWithoutFile ==
    /\ m_last.op \in {"load", "get"}
    /\ ~m_last.before.ok
    /\ ~m_last.file_before.exists

\* that load returned the defaults and left them in a file at the path
DefaultsReturnedAndWritten ==
    /\ ~m_last.raised
    /\ SameConfig(m_config, Defaults)
    /\ m_file.exists
    /\ m_file.text = JsonDump(model_dump(Defaults.value), 0).text

\* load_config on the file as it is now yields the defaults
LoadingAgainYieldsDefaults ==
    LET again == load_config(m_path, m_config, m_file)
    IN ~again.raised /\ SameConfig(again.config, Defaults)

\* get_config on a manager that holds a configuration returned it, changed
\* nothing, and would have done the same whatever was at the path
HeldConfigReturnedUnread ==
    (m_last.op = "get" /\ m_last.before.ok) =>
        /\ ~m_last.raised
        /\ SameConfig(m_config, m_last.before)
        /\ m_file = m_last.file_before
        /\ \A file \in InitialFiles :
              get_config(m_path, m_last.before, file) =
                  Ended(FALSE, m_last.before, file)

\* C23: with no file at the manager's path, the first load_config, direct or
\* through get_config, returns the defaults and writes them to the path, so
\* that the file exists afterwards and loading it again yields the defaults;
\* once a configuration is held, get_config returns it without reading the
\* file.
C23_DefaultsWrittenOnFirstLoad ==
    /\ (m_last.op # "none" /\ FirstLoadWithoutFile) =>
          DefaultsReturnedAndWritten /\ LoadingAgainYieldsDefaults
    /\ m_last.op # "none" => HeldConfigReturnedUnread

\* C23 witness: the path is a bare file name and there was no file; the
\* first load_config raised on making the directory of the path, the
\* manager holds the defaults and there is still no file.
C23_Witness ==
    /\ m_last.op = "load"
    /\ ~m_last.before.ok
    /\ ~m_last.file_before.exists
    /\ dirname(m_path) = <<>>
    /\ m_last.raised
    /\ SameConfig(m_config, Defaults)
    /\ ~m_file.exists

----------------------------------------------------------------------------
(* Properties of the pool's list of clients *)

\* C22: a pool built with size N holds N client instances, no instance
\* twice, and whatever follows, requests of single clients, calls of
\* enhance_prompts_concurrent, close() of a client or of the pool, returning
\* or raising, no step changes the list or the size: the same instances
\* stay at the same positions.
C22_MembershipFixed ==
    /\ [](k_pc \in {"ready", "closing"} =>
            /\ k_size >= 1
            /\ Len(k_clients) = k_size
            /\ \A i, j \in 1..Len(k_clients) :
                   k_clients[i] = k_clients[j] => i = j)
    /\ [][k_clients' = k_clients /\ k_size' = k_size]_vars

\* C22 witness: on a pool of two, requests were sent and close() was called;
\* a close() of the pool raised, the first client's session is cleared, the
\* second's holds connections, and the pool holds its two clients in the
\* order of their making.
C22_Witness ==
    /\ k_pc = "ready"
    /\ k_size = 2
    /\ k_out = "raise"
    /\ k_raised
    /\ k_session[1] = "cleared"
    /\ k_session[2] = "live"
    /\ k_clients = <<1, 2>>

----------------------------------------------------------------------------
(* Properties of enhance_prompt on a reply without a response field *)

\* a 200 reply whose body is a JSON object without a top-level response
\* field was received and enhance_prompt has ended
ObjectWithoutResponse ==
    /\ e_pc = "done"
    /\ e_post.kind = "response"
    /\ e_post.status = 200
    /\ ReplyData.ok
    /\ ReplyData.val.t = "dict"
    /\ ~DictHas(ReplyData.val, K_response)

\* str(response_data) for that object
Rendering == PyRepr(ReplyData.val)

\* C24 as stated: on such a reply enhance_prompt does not raise and returns
\* original + ", " + the string rendering of the whole reply object, never
\* the original prompt alone.
C24_Original ==
    ObjectWithoutResponse =>
        /\ e_out.kind = "return"
        /\ e_out.value = e_prompt \o <<",", " ">> \o Rendering

\* C24: on such a reply enhance_prompt does not raise and takes the string
\* rendering of the whole reply object as the addition; it returns original
\* + ", " + that rendering unless the rendering equals the original prompt
\* up to case, and then it returns the original prompt alone.
C24_RenderingIsAddition ==
    ObjectWithoutResponse =>
        /\ e_out.kind = "return"
        /\ e_out.addition = Rendering
        /\ Rendering # <<>>
        /\ IF lower(Rendering) = lower(e_prompt)
           THEN e_out.value = e_prompt
           ELSE e_out.value = e_prompt \o <<",", " ">> \o Rendering

\* C24 witness: an error envelope came with status 200 and its rendering
\* is inside the returned prompt.
C24_Witness ==
    /\ ObjectWithoutResponse
    /\ e_post.body = ErrorBody
    /\ e_prompt = <<"a", " ", "c", "a", "t">>
    /\ e_out.kind = "return"
    /\ e_out.value = <<"a", " ", "c", "a", "t", ",", " ", "{", "'", "e", "r", "r", "o", "r", "'", ":", " ", "'", "x", "'", "}">>

====
